---- MODULE Spec2Model ----
(***************************************************************************)
(* A model of the tracing layer CustomJsonLayer (src/src/custom_layer.rs)   *)
(* and of SerdeJsonAdapter (src/src/serde_json_adapter.rs), which shows a   *)
(* serde_json::Value to the layer as a valuable::Valuable.                  *)
(*                                                                         *)
(* Strings are sequences of one-character strings, so that prefixes can be  *)
(* stripped and documents parsed character by character.  An Option is a    *)
(* sequence of length at most one: <<>> is None and <<x>> is Some(x).       *)
(***************************************************************************)
EXTENDS Integers, Sequences, FiniteSets, TLC

(***************************************************************************)
(* serde_json::Value.  An object holds its entries in iteration order; a    *)
(* number keeps serde_json's three variants (PosInt, NegInt, Float).  A     *)
(* float is the decimal m / 10^s with the least s >= 0 (37.5 is 375 and 1,  *)
(* 2.0 is 2 and 0), and a third part that tells the negative zero, -0.0,    *)
(* from 0.0.                                                                *)
(***************************************************************************)
Null == [t |-> "null"]
Bool(b) == [t |-> "bool", v |-> b]
PosInt(n) == [t |-> "num", n |-> "pos", v |-> n]
NegInt(n) == [t |-> "num", n |-> "neg", v |-> n]
Float(m, s) == [t |-> "num", n |-> "float", v |-> <<m, s, FALSE>>]
NegZero == [t |-> "num", n |-> "float", v |-> <<0, 0, TRUE>>]
Str(s) == [t |-> "str", v |-> s]
Arr(items) == [t |-> "arr", v |-> items]
Obj(entries) == [t |-> "obj", v |-> entries]

\* Number::from(i64): a non-negative value is stored as PosInt.
FromI64(n) == IF n >= 0 THEN PosInt(n) ELSE NegInt(n)

\* Number::from_f64 behind json!(f64): a non-finite float becomes Null.
FromF64(f) ==
  IF f.cls # "finite" THEN Null
  ELSE IF f.z THEN NegZero
  ELSE Float(f.m, f.s)

(***************************************************************************)
(* Characters.  Ascii lists the printable ASCII characters from code 32 on;  *)
(* the backslash (5C) and the backtick (60) hold their places only and      *)
(* occur in no string of the model.                                         *)
(***************************************************************************)
Ascii ==
  << " ", "!", "\"", "#", "$", "%", "&", "'", "(", ")", "*", "+", ",", "-",
     ".", "/", "0", "1", "2", "3", "4", "5", "6", "7", "8", "9", ":", ";",
     "<", "=", ">", "?", "@", "A", "B", "C", "D", "E", "F", "G", "H", "I",
     "J", "K", "L", "M", "N", "O", "P", "Q", "R", "S", "T", "U", "V", "W",
     "X", "Y", "Z", "[", "<5C>", "]", "^", "_", "<60>", "a", "b", "c", "d", "e",
     "f", "g", "h", "i", "j", "k", "l", "m", "n", "o", "p", "q", "r", "s",
     "t", "u", "v", "w", "x", "y", "z", "{", "|", "}", "~" >>

CharCode(c) == 31 + (CHOOSE i \in 1..Len(Ascii) : Ascii[i] = c)

Digits == <<"0", "1", "2", "3", "4", "5", "6", "7", "8", "9">>

IsDigit(c) == \E i \in 1..10 : Digits[i] = c

DigitVal(c) == (CHOOSE i \in 1..10 : Digits[i] = c) - 1

\* str::cmp on two strings: byte-wise lexicographic order.
RECURSIVE StrLess(_, _)
StrLess(a, b) ==
  IF b = <<>> THEN FALSE
  ELSE IF a = <<>> THEN TRUE
  ELSE IF Head(a) = Head(b) THEN StrLess(Tail(a), Tail(b))
  ELSE CharCode(Head(a)) < CharCode(Head(b))

\* str::strip_prefix: Some(rest) when s starts with p, else None.
StripPrefix(s, p) ==
  IF Len(s) >= Len(p) /\ SubSeq(s, 1, Len(p)) = p
  THEN <<SubSeq(s, Len(p) + 1, Len(s))>>
  ELSE <<>>

SPECIAL_JSON_PREFIX ==
  << "!", "c", "u", "s", "t", "o", "m", "_", "l", "a", "y", "e", "r", "_",
     "t", "r", "a", "c", "i", "n", "g", "_", "j", "s", "o", "n", "!" >>

(***************************************************************************)
(* serde_json::Map<String, Value> with the crate's default features: a      *)
(* BTreeMap, so entries are kept sorted by key and a repeated key keeps     *)
(* its place with the later value.                                          *)
(***************************************************************************)
RECURSIVE MapInsert(_, _, _)
MapInsert(m, k, val) ==
  IF m = <<>> THEN << <<k, val>> >>
  ELSE IF Head(m)[1] = k THEN << <<k, val>> >> \o Tail(m)
  ELSE IF StrLess(k, Head(m)[1]) THEN << <<k, val>> >> \o m
  ELSE <<Head(m)>> \o MapInsert(Tail(m), k, val)

(***************************************************************************)
(* serde_json::from_str::<Value>, on strings of printable ASCII without     *)
(* backslash escapes, with numerals short enough to be exact.  A parse      *)
(* step returns [ok, val, pos]: pos is the index of the first character     *)
(* not consumed.                                                            *)
(***************************************************************************)
ParseFail == [ok |-> FALSE, val |-> Null, pos |-> 0]

ParseOk(val, pos) == [ok |-> TRUE, val |-> val, pos |-> pos]

\* Deserializer::parse_whitespace
RECURSIVE SkipWs(_, _)
SkipWs(s, i) ==
  IF i <= Len(s) /\ s[i] = " " THEN SkipWs(s, i + 1) ELSE i

\* Deserializer::parse_ident, for null, true and false
ParseIdent(s, i, ident, val) ==
  IF i + Len(ident) - 1 <= Len(s) /\ SubSeq(s, i, i + Len(ident) - 1) = ident
  THEN ParseOk(val, i + Len(ident))
  ELSE ParseFail

\* The index after the run of digits that starts at i.
RECURSIVE DigitsEnd(_, _)
DigitsEnd(s, i) ==
  IF i <= Len(s) /\ IsDigit(s[i]) THEN DigitsEnd(s, i + 1) ELSE i

\* The decimal value of the digits s[i..j-1], most significant first.
RECURSIVE Decimal(_, _, _, _)
Decimal(s, i, j, acc) ==
  IF i >= j THEN acc ELSE Decimal(s, i + 1, j, 10 * acc + DigitVal(s[i]))

\* ParserNumber::U64 and I64: without a minus sign the number is PosInt, with
\* one it is NegInt, and "-0" is the float -0.0.
NumberOf(neg, n) ==
  IF ~neg THEN PosInt(n) ELSE IF n = 0 THEN NegZero ELSE NegInt(0 - n)

\* The decimal m / 10^s in its least terms.
RECURSIVE Normal(_, _)
Normal(m, s) ==
  IF m = 0 THEN <<0, 0>>
  ELSE IF s < 0 THEN Normal(10 * m, s + 1)
  ELSE IF s > 0 /\ m % 10 = 0 THEN Normal(m \div 10, s - 1)
  ELSE <<m, s>>

\* ParserNumber::F64 from the normal form nm of its magnitude: the float is
\* negated after a minus sign, which makes -0.0 of 0.0.
Signed(neg, nm) ==
  IF ~neg THEN Float(nm[1], nm[2])
  ELSE IF nm[1] = 0 THEN NegZero
  ELSE Float(0 - nm[1], nm[2])

FloatOf(neg, m, s) == Signed(neg, Normal(m, s))

\* The exponent's digits s[d..e-1], after the mantissa m / 10^scale.
ExponentDigits(s, neg, m, scale, eneg, d, e) ==
  IF e = d THEN ParseFail
  ELSE IF eneg THEN ParseOk(FloatOf(neg, m, scale + Decimal(s, d, e, 0)), e)
  ELSE ParseOk(FloatOf(neg, m, scale - Decimal(s, d, e, 0)), e)

\* Deserializer::parse_exponent, s[x] being "e" or "E".
ParseExponent(s, neg, m, scale, x) ==
  IF x + 1 <= Len(s) /\ s[x + 1] \in {"+", "-"}
  THEN ExponentDigits(s, neg, m, scale, s[x + 1] = "-", x + 2,
                      DigitsEnd(s, x + 2))
  ELSE ExponentDigits(s, neg, m, scale, FALSE, x + 1, DigitsEnd(s, x + 1))

\* Deserializer::parse_decimal, the fraction's digits being s[f..g-1] and
\* int the digits before the point.
ParseDecimal(s, neg, int, f, g) ==
  IF g = f THEN ParseFail
  ELSE IF g <= Len(s) /\ s[g] \in {"e", "E"}
    THEN ParseExponent(s, neg, Decimal(s, f, g, int), g - f, g)
  ELSE ParseOk(FloatOf(neg, Decimal(s, f, g, int), g - f), g)

\* Deserializer::parse_integer, the digits being s[d..e-1]: there is one
\* digit at least and nothing follows a leading zero.
ParseDigits(s, neg, d, e) ==
  IF e = d THEN ParseFail
  ELSE IF s[d] = "0" /\ e > d + 1 THEN ParseFail
  ELSE IF e <= Len(s) /\ s[e] = "."
    THEN ParseDecimal(s, neg, Decimal(s, d, e, 0), e + 1, DigitsEnd(s, e + 1))
  ELSE IF e <= Len(s) /\ s[e] \in {"e", "E"}
    THEN ParseExponent(s, neg, Decimal(s, d, e, 0), 0, e)
  ELSE ParseOk(NumberOf(neg, Decimal(s, d, e, 0)), e)

ParseNumber(s, i) ==
  IF s[i] = "-" THEN ParseDigits(s, TRUE, i + 1, DigitsEnd(s, i + 1))
  ELSE ParseDigits(s, FALSE, i, DigitsEnd(s, i))

\* The index of the first double quote at or after i, or 0 when none is left.
RECURSIVE QuoteAt(_, _)
QuoteAt(s, i) ==
  IF i > Len(s) THEN 0 ELSE IF s[i] = "\"" THEN i ELSE QuoteAt(s, i + 1)

\* The text between the opening quote at i and the closing quote at q.
StringUpTo(s, i, q) ==
  IF q = 0 THEN ParseFail
  ELSE [ok |-> TRUE, val |-> SubSeq(s, i + 1, q - 1), pos |-> q + 1]

\* Deserializer::parse_str, s[i] being the opening quote; val is the text.
ParseString(s, i) == StringUpTo(s, i, QuoteAt(s, i + 1))

\* A string read as a value.
AsStr(r) == IF r.ok THEN ParseOk(Str(r.val), r.pos) ELSE ParseFail

RECURSIVE ParseValue(_, _)
RECURSIVE ParseElems(_, _, _)
RECURSIVE ParseMembers(_, _, _)

\* After "[" and whitespace: the empty array, or its elements.
ParseArray(s, j) ==
  IF j <= Len(s) /\ s[j] = "]" THEN ParseOk(Arr(<<>>), j + 1)
  ELSE ParseElems(s, j, <<>>)

\* After "{" and whitespace: the empty object, or its members.
ParseObject(s, j) ==
  IF j <= Len(s) /\ s[j] = "}" THEN ParseOk(Obj(<<>>), j + 1)
  ELSE ParseMembers(s, j, <<>>)

\* Deserializer::deserialize_any, at the first character of a value.
ParseValue(s, i) ==
  IF i > Len(s) THEN ParseFail
  ELSE IF s[i] = "n" THEN ParseIdent(s, i, <<"n", "u", "l", "l">>, Null)
  ELSE IF s[i] = "t" THEN ParseIdent(s, i, <<"t", "r", "u", "e">>, Bool(TRUE))
  ELSE IF s[i] = "f"
    THEN ParseIdent(s, i, <<"f", "a", "l", "s", "e">>, Bool(FALSE))
  ELSE IF s[i] = "-" \/ IsDigit(s[i]) THEN ParseNumber(s, i)
  ELSE IF s[i] = "\"" THEN AsStr(ParseString(s, i))
  ELSE IF s[i] = "[" THEN ParseArray(s, SkipWs(s, i + 1))
  ELSE IF s[i] = "{" THEN ParseObject(s, SkipWs(s, i + 1))
  ELSE ParseFail

\* After the elements acc, at j: a comma and more elements, or "]".
ElemsNext(s, j, acc) ==
  IF j > Len(s) THEN ParseFail
  ELSE IF s[j] = "," THEN ParseElems(s, SkipWs(s, j + 1), acc)
  ELSE IF s[j] = "]" THEN ParseOk(Arr(acc), j + 1)
  ELSE ParseFail

\* The element r read after the elements acc.
ElemsWith(s, acc, r) ==
  IF ~r.ok THEN ParseFail
  ELSE ElemsNext(s, SkipWs(s, r.pos), Append(acc, r.val))

\* SeqAccess::next_element_seed, looped: the elements after "[" or ",".
ParseElems(s, i, acc) == ElemsWith(s, acc, ParseValue(s, i))

\* After the members acc, at j: a comma and more members, or "}".
MembersNext(s, j, acc) ==
  IF j > Len(s) THEN ParseFail
  ELSE IF s[j] = "," THEN ParseMembers(s, SkipWs(s, j + 1), acc)
  ELSE IF s[j] = "}" THEN ParseOk(Obj(acc), j + 1)
  ELSE ParseFail

\* The value r read for key: the member goes into the map.
MembersWith(s, acc, key, r) ==
  IF ~r.ok THEN ParseFail
  ELSE MembersNext(s, SkipWs(s, r.pos), MapInsert(acc, key, r.val))

\* After the key, at c: the colon, then the value.
MembersColon(s, acc, key, c) ==
  IF c > Len(s) THEN ParseFail
  ELSE IF s[c] # ":" THEN ParseFail
  ELSE MembersWith(s, acc, key, ParseValue(s, SkipWs(s, c + 1)))

\* The key k read as a string.
MembersKey(s, acc, k) ==
  IF ~k.ok THEN ParseFail
  ELSE MembersColon(s, acc, k.val, SkipWs(s, k.pos))

\* MapAccess::next_key_seed and next_value_seed, looped: the members after
\* "{" or ",", inserted into the map as they are read.
ParseMembers(s, i, acc) ==
  IF i > Len(s) THEN ParseFail
  ELSE IF s[i] # "\"" THEN ParseFail
  ELSE MembersKey(s, acc, ParseString(s, i))

\* Deserializer::end: after the value r, only whitespace may follow.
ParseEnd(s, r) ==
  IF ~r.ok THEN <<>>
  ELSE IF SkipWs(s, r.pos) = Len(s) + 1 THEN <<r.val>>
  ELSE <<>>

\* serde_json::from_str: Some(value) stands for Ok(value), None for Err(_).
FromStr(s) == ParseEnd(s, ParseValue(s, SkipWs(s, 1)))

(***************************************************************************)
(* valuable::Value, as far as the conversions tell its variants apart:      *)
(* Unit, Bool, U64, I64, F64, String, Path (v is Some(text) when the path   *)
(* is valid UTF-8, None when it is not), Listable (v is the elements) and   *)
(* Mappable (v is the entries <<key, value>>, both of them Values).         *)
(***************************************************************************)
VUnit == [t |-> "Unit"]
VBool(b) == [t |-> "Bool", v |-> b]
VU64(n) == [t |-> "U64", v |-> n]
VI64(n) == [t |-> "I64", v |-> n]
VF64(f) == [t |-> "F64", v |-> f]
VString(s) == [t |-> "String", v |-> s]
VPath(p) == [t |-> "Path", v |-> p]
VListable(items) == [t |-> "Listable", v |-> items]
VMappable(entries) == [t |-> "Mappable", v |-> entries]

\* An f64: the finite decimal m / 10^s in its least terms, the negative
\* zero, or not a number.
Finite(m, s) == [cls |-> "finite", m |-> m, s |-> s, z |-> FALSE]
NegZeroF64 == [cls |-> "finite", m |-> 0, s |-> 0, z |-> TRUE]
NaN == [cls |-> "nan", m |-> 0, s |-> 0, z |-> FALSE]

(***************************************************************************)
(* serde_json::to_value(valuable_serde::Serializable::new(value)), the      *)
(* conversion inside json!(..) of record_value.  Some(document) stands for  *)
(* Ok and None for Err: a path that is not UTF-8 cannot be serialized, and  *)
(* a map key must serialize as a string, which strings, booleans, integers  *)
(* and finite floats do, a float as its shortest decimal with a point.      *)
(***************************************************************************)
\* The decimal digits of a natural number.
RECURSIVE NatDigits(_)
NatDigits(n) ==
  IF n < 10 THEN <<Digits[n + 1]>>
  ELSE Append(NatDigits(n \div 10), Digits[(n % 10) + 1])

\* An integer as serde_json writes it.
IntStr(n) == IF n < 0 THEN <<"-">> \o NatDigits(0 - n) ELSE NatDigits(n)

RECURSIVE Pow10(_)
Pow10(s) == IF s = 0 THEN 1 ELSE 10 * Pow10(s - 1)

\* The s digits of the fraction f / 10^s.
RECURSIVE FractionDigits(_, _)
FractionDigits(f, s) ==
  IF s = 0 THEN <<>>
  ELSE Append(FractionDigits(f \div 10, s - 1), Digits[(f % 10) + 1])

\* The magnitude a / 10^s with a point: 1.5, 2.0, 0.25.
MagnitudeStr(a, s) ==
  NatDigits(a \div Pow10(s)) \o <<".">>
  \o (IF s = 0 THEN <<"0">> ELSE FractionDigits(a % Pow10(s), s))

\* The finite float m / 10^s as serde_json writes it; the floats of the
\* model are of a size written without an exponent.
FloatStr(m, s, z) ==
  IF m < 0 \/ z THEN <<"-">> \o MagnitudeStr(0 - m, s) ELSE MagnitudeStr(m, s)

\* The key of a map entry as serde_json's MapKeySerializer takes it:
\* Some(string), or None where it answers "key must be a string".
KeyToString(key) ==
  IF key.t = "String" THEN <<key.v>>
  ELSE IF key.t = "Bool"
    THEN (IF key.v THEN << <<"t", "r", "u", "e">> >>
          ELSE << <<"f", "a", "l", "s", "e">> >>)
  ELSE IF key.t \in {"U64", "I64"} THEN <<IntStr(key.v)>>
  ELSE IF key.t = "F64"
    THEN (IF key.v.cls = "finite" THEN <<FloatStr(key.v.m, key.v.s, key.v.z)>>
          ELSE <<>>)
  ELSE IF key.t = "Path" THEN key.v
  ELSE <<>>

RECURSIVE ToValue(_)
RECURSIVE ToValueSeq(_, _)
RECURSIVE ToValueMap(_, _)

\* <Path as Serialize>::serialize
PathToValue(p) == IF p = <<>> THEN <<>> ELSE <<Str(p[1])>>

ToValue(val) ==
  IF val.t = "Unit" THEN <<Null>>
  ELSE IF val.t = "Bool" THEN <<Bool(val.v)>>
  ELSE IF val.t = "U64" THEN <<PosInt(val.v)>>
  ELSE IF val.t = "I64" THEN <<FromI64(val.v)>>
  ELSE IF val.t = "F64" THEN <<FromF64(val.v)>>
  ELSE IF val.t = "String" THEN <<Str(val.v)>>
  ELSE IF val.t = "Path" THEN PathToValue(val.v)
  ELSE IF val.t = "Listable" THEN ToValueSeq(val.v, <<>>)
  ELSE ToValueMap(val.v, <<>>)

\* The element converted to r joins acc, or its failure ends the conversion.
SeqWith(rest, acc, r) ==
  IF r = <<>> THEN <<>> ELSE ToValueSeq(rest, Append(acc, r[1]))

\* SerializeSeq over the elements.
ToValueSeq(items, acc) ==
  IF items = <<>> THEN <<Arr(acc)>>
  ELSE SeqWith(Tail(items), acc, ToValue(Head(items)))

\* The entry of the key string key, None where the key is refused, its
\* value converted to r, goes into the map acc.
MapWith(rest, acc, key, r) ==
  IF key = <<>> THEN <<>>
  ELSE IF r = <<>> THEN <<>>
  ELSE ToValueMap(rest, MapInsert(acc, key[1], r[1]))

\* SerializeMap over the entries, each inserted into a serde_json::Map.
ToValueMap(entries, acc) ==
  IF entries = <<>> THEN <<Obj(acc)>>
  ELSE MapWith(Tail(entries), acc, KeyToString(Head(entries)[1]),
               ToValue(Head(entries)[2]))

(***************************************************************************)
(* SerdeJsonAdapter over the document json.  A Value::Listable or           *)
(* Value::Mappable borrows the adapter itself, and the model holds such a   *)
(* value as what visiting it yields: the elements, or the entries           *)
(* <<key, value>>, in the order of the visit.                               *)
(***************************************************************************)
\* Number::as_u64, as_i64 and as_f64.  The numbers of the model lie below
\* i64::MAX, where as_i64 answers for every PosInt.
AsU64(json) == IF json.n = "pos" THEN <<json.v>> ELSE <<>>

AsI64(json) == IF json.n \in {"pos", "neg"} THEN <<json.v>> ELSE <<>>

AsF64(json) ==
  IF json.n # "float" THEN <<Finite(json.v, 0)>>
  ELSE IF json.v[3] THEN <<NegZeroF64>>
  ELSE <<Finite(json.v[1], json.v[2])>>

\* A slip: as_i64 is asked before as_u64.
NumberSignedFirst(json) ==
  IF AsI64(json) # <<>> THEN VI64(AsI64(json)[1])
  ELSE IF AsU64(json) # <<>> THEN VU64(AsU64(json)[1])
  ELSE IF AsF64(json) # <<>> THEN VF64(AsF64(json)[1])
  ELSE VUnit

\* The arm of as_value for serde_json::Value::Number.
NumberAsValue(json) ==
  IF AsU64(json) # <<>> THEN VU64(AsU64(json)[1])
  ELSE IF AsI64(json) # <<>> THEN VI64(AsI64(json)[1])
  ELSE IF AsF64(json) # <<>> THEN VF64(AsF64(json)[1])
  ELSE VUnit

RECURSIVE as_value(_)
RECURSIVE ArrayItems(_)
RECURSIVE ObjectEntries(_)

\* A slip: the elements are visited from the last to the first.
ArrayItemsReversed(arr) ==
  [i \in 1..Len(arr) |-> as_value(arr[Len(arr) + 1 - i])]

\* for item in arr: the value of SerdeJsonAdapter(item) handed to the
\* visitor.
ArrayItems(arr) == [i \in 1..Len(arr) |-> as_value(arr[i])]

\* for (key, value) in obj: the key as a string value and the value of
\* SerdeJsonAdapter(value).
ObjectEntries(obj) ==
  [i \in 1..Len(obj) |-> <<VString(obj[i][1]), as_value(obj[i][2])>>]

\* <SerdeJsonAdapter as Valuable>::as_value
as_value(json) ==
  IF json.t = "null" THEN VUnit
  ELSE IF json.t = "bool" THEN VBool(json.v)
  ELSE IF json.t = "num" THEN NumberAsValue(json)
  ELSE IF json.t = "str" THEN VString(json.v)
  ELSE IF json.t = "arr" THEN VListable(ArrayItems(json.v))
  ELSE VMappable(ObjectEntries(json.v))

\* The calls a visitor receives.
VisitValue(val) == [visit |-> "visit_value", v |-> val]
VisitEntry(entry) == [visit |-> "visit_entry", k |-> entry[1], v |-> entry[2]]

\* <SerdeJsonAdapter as Valuable>::visit: the calls made on the visitor.
visit(json) ==
  IF json.t = "arr"
    THEN [i \in 1..Len(json.v) |-> VisitValue(ArrayItems(json.v)[i])]
  ELSE IF json.t = "obj"
    THEN [i \in 1..Len(json.v) |-> VisitEntry(ObjectEntries(json.v)[i])]
  ELSE <<VisitValue(as_value(json))>>

\* A size hint is (lower, upper), upper being an Option.
\* A slip: the upper bound is left out.
ListableSizeHintOpen(json) ==
  IF json.t = "arr" THEN <<Len(json.v), <<>> >> ELSE <<0, <<>> >>

\* <SerdeJsonAdapter as Listable>::size_hint
ListableSizeHint(json) ==
  IF json.t = "arr" THEN <<Len(json.v), <<Len(json.v)>> >> ELSE <<0, <<>> >>

\* <SerdeJsonAdapter as Mappable>::size_hint
MappableSizeHint(json) ==
  IF json.t = "obj" THEN <<Len(json.v), <<Len(json.v)>> >> ELSE <<0, <<>> >>

(***************************************************************************)
(* CustomLayerTracedData: an IndexMap from field name to document, held as  *)
(* the sequence of its entries <<key, value>> in iteration order.           *)
(***************************************************************************)
EmptyData == <<>>

Keys(data) == [i \in 1..Len(data) |-> data[i][1]]

HasKey(data, key) == \E i \in 1..Len(data) : data[i][1] = key

Get(data, key) == data[CHOOSE i \in 1..Len(data) : data[i][1] = key][2]

\* A slip an ordered map invites: a key inserted again moves to the end.
InsertMovingToEnd(data, key, value) ==
  SelectSeq(data, LAMBDA e : e[1] # key) \o << <<key, value>> >>

\* CustomLayerTracedData::insert, that is IndexMap::insert: an existing key
\* keeps its position and takes the new value, a new key goes to the end.
Insert(data, key, value) ==
  IF HasKey(data, key)
  THEN [i \in 1..Len(data) |->
          IF data[i][1] = key THEN <<key, value>> ELSE data[i]]
  ELSE Append(data, <<key, value>>)

\* impl Serialize for CustomLayerTracedData: one map entry per key, in
\* iteration order.
SerializeData(data) == Obj(data)

(***************************************************************************)
(* The values tracing hands to a Visit, one per record_* callback.  An      *)
(* error is given by its Display text and a Debug value by its {:?} text.   *)
(* A field is [name, val]; a span's attributes, the values of a record call *)
(* and the fields of an event are sequences of fields, visited in order.    *)
(***************************************************************************)
TF64(f) == [t |-> "f64", v |-> f]
TI64(n) == [t |-> "i64", v |-> n]
TU64(n) == [t |-> "u64", v |-> n]
TBool(b) == [t |-> "bool", v |-> b]
TStr(s) == [t |-> "str", v |-> s]
TError(text) == [t |-> "error", v |-> text]
TDebug(text) == [t |-> "debug", v |-> text]
TValue(val) == [t |-> "value", v |-> val]

Field(name, val) == [name |-> name, val |-> val]

K_timestamp == <<"t", "i", "m", "e", "s", "t", "a", "m", "p">>
K_level == <<"l", "e", "v", "e", "l">>
K_target == <<"t", "a", "r", "g", "e", "t">>
K_fields == <<"f", "i", "e", "l", "d", "s">>
K_span == <<"s", "p", "a", "n">>
K_spans == <<"s", "p", "a", "n", "s">>
K_name == <<"n", "a", "m", "e">>

(***************************************************************************)
(* JsonAttributeVisitor: each callback inserts one entry into the data the  *)
(* visitor was made with.                                                   *)
(***************************************************************************)
record_f64(data, name, value) == Insert(data, name, FromF64(value))

record_i64(data, name, value) == Insert(data, name, FromI64(value))

record_u64(data, name, value) == Insert(data, name, PosInt(value))

record_bool(data, name, value) == Insert(data, name, Bool(value))

\* if let Ok(json) = serde_json::from_str(json_str) { json } else
\* { json!(fallback) }, parsed being what from_str returned.
JsonOr(parsed, fallback) == IF parsed # <<>> THEN parsed[1] ELSE Str(fallback)

\* A slip: the fallback keeps the stripped remainder instead of the string.
StrippedKeepingRest(value, json_str) == JsonOr(FromStr(json_str), json_str)

\* The branch of record_str taken when strip_prefix returned Some(json_str).
Stripped(value, json_str) == JsonOr(FromStr(json_str), value)

\* The document record_str stores, stripped being what strip_prefix returned.
StrData(value, stripped) ==
  IF stripped = <<>> THEN Str(value) ELSE Stripped(value, stripped[1])

record_str(data, name, value) ==
  Insert(data, name, StrData(value, StripPrefix(value, SPECIAL_JSON_PREFIX)))

record_error(data, name, value) == Insert(data, name, Str(value))

record_debug(data, name, value) == Insert(data, name, Str(value))

\* The entry record_value inserts for the conversion's result json.
InsertConverted(data, name, json) ==
  IF json = <<>> THEN <<>> ELSE <<Insert(data, name, json[1])>>

\* json!(x) is to_value(&x).unwrap(): Some(data) when the value converts,
\* None when the conversion fails and unwrap panics.
record_value(data, name, value) == InsertConverted(data, name, ToValue(value))

\* JsonAttributeVisitor::record_metadata
record_metadata(data, metadata) ==
  Insert(Insert(data, K_target, Str(metadata.target)),
         K_name, Str(metadata.name))

\* A callback that returned, leaving the data d.
Visited(d) == [data |-> d, panicked |-> FALSE]

\* record_value's end: r is Some(data), or None for a panic, which leaves
\* the data as it was.
VisitedValue(data, r) ==
  IF r = <<>> THEN [data |-> data, panicked |-> TRUE] ELSE Visited(r[1])

\* One field driven through the visitor: the callback of the value's type.
VisitField(data, field) ==
  IF field.val.t = "f64"
    THEN Visited(record_f64(data, field.name, field.val.v))
  ELSE IF field.val.t = "i64"
    THEN Visited(record_i64(data, field.name, field.val.v))
  ELSE IF field.val.t = "u64"
    THEN Visited(record_u64(data, field.name, field.val.v))
  ELSE IF field.val.t = "bool"
    THEN Visited(record_bool(data, field.name, field.val.v))
  ELSE IF field.val.t = "str"
    THEN Visited(record_str(data, field.name, field.val.v))
  ELSE IF field.val.t = "error"
    THEN Visited(record_error(data, field.name, field.val.v))
  ELSE IF field.val.t = "debug"
    THEN Visited(record_debug(data, field.name, field.val.v))
  ELSE VisitedValue(data, record_value(data, field.name, field.val.v))

RECURSIVE RecordAll(_, _)

\* After one field: a panic ends the visit, else the rest is visited.
RecordRest(r, rest) == IF r.panicked THEN r ELSE RecordAll(r.data, rest)

\* Attributes::record, Record::record and Event::record: every field in
\* order; a panic in a callback ends the visit with the data as it then is.
RecordAll(data, fields) ==
  IF fields = <<>> THEN Visited(data)
  ELSE RecordRest(VisitField(data, Head(fields)), Tail(fields))

\* format_level
format_level(level) ==
  IF level = "Level::DEBUG" THEN <<"D", "E", "B", "U", "G">>
  ELSE IF level = "Level::ERROR" THEN <<"E", "R", "R", "O", "R">>
  ELSE IF level = "Level::INFO" THEN <<"I", "N", "F", "O">>
  ELSE IF level = "Level::TRACE" THEN <<"T", "R", "A", "C", "E">>
  ELSE <<"W", "A", "R", "N">>

(***************************************************************************)
(* Bounds and inputs of the model.                                          *)
(***************************************************************************)
\* Spans the registry creates where several spans and events are followed.
MaxSpans == 2

\* Spans the registry creates where one record is followed through values
\* of every type.
MaxTypedSpans == 1

\* Times one ScopeSerializer is serialized.
MaxSerialize == 2

\* Elements of the arrays given to a SerdeJsonAdapter.
MaxItems == 2

\* Threads that emit an event at the same time.
MaxThreads == 3

\* Calls of write that one write_all needs for a line.
MaxWrites == 2

APP == <<"a", "p", "p">>

\* The attributes the application gives its spans, at creation or through
\* a later record call, where several spans and events are followed.
SpanAttrs ==
  { <<>>,
    <<Field(K_spans, TI64(1))>>,
    <<Field(<<"b">>, TValue(VPath(<<>>)))>> }

\* The events of the application: an event's callsite fixes its level, its
\* target and the names of its fields.
Events ==
  { [level |-> "Level::INFO", target |-> APP,
     fields |-> <<Field(<<"m", "s", "g">>, TDebug(<<"h", "i">>))>>],
    [level |-> "Level::ERROR", target |-> APP,
     fields |-> <<Field(K_span, TU64(7)), Field(K_timestamp, TBool(TRUE))>>],
    [level |-> "Level::WARN", target |-> APP,
     fields |-> <<Field(<<"v">>,
                        TValue(VMappable(<< <<VUnit, VBool(TRUE)>> >>)))>>] }

\* Readings of the clock; the text of a reading is left abstract.
Times == {<<"T", "1">>}

\* Strings given to record_str: a plain one, and the sentinel followed by
\* an object, by a string, by text that is no document, and by nothing.
Plain == <<"x">>
JsonObject ==
  SPECIAL_JSON_PREFIX
  \o <<"{", "\"", "k", "\"", ":", "[", "1", ",", "t", "r", "u", "e", "]", "}">>
JsonString == SPECIAL_JSON_PREFIX \o <<"\"", "s", "\"">>
JsonNegZero ==
  SPECIAL_JSON_PREFIX \o <<"[", "-", "0", ",", "-", "0", ".", "0", "]">>
NotJson == SPECIAL_JSON_PREFIX \o <<"n", "o", "t", " ", "j", "s", "o", "n">>
OnlyPrefix == SPECIAL_JSON_PREFIX

A == <<"a">>
B == <<"b">>

\* One call of three strings: a document, no document, and a plain one.
SentinelAttrs ==
  <<Field(A, TStr(JsonObject)), Field(B, TStr(NotJson)),
    Field(K_name, TStr(Plain))>>

\* The attributes where one record is followed: every callback of the
\* visitor, a name recorded twice in one call, names recorded in either
\* order, the names the layer itself records, and values that convert, a
\* map with keys that are no strings among them, and that do not.
TypedAttrs ==
  { <<>>,
    <<Field(A, TI64(-3))>>,
    <<Field(A, TStr(Plain))>>,
    <<Field(A, TStr(JsonObject))>>,
    <<Field(A, TStr(JsonString))>>,
    <<Field(A, TStr(NotJson))>>,
    <<Field(A, TStr(OnlyPrefix))>>,
    <<Field(B, TF64(NaN))>>,
    <<Field(B, TF64(Finite(15, 1)))>>,
    <<Field(B, TF64(NegZeroF64))>>,
    <<Field(A, TStr(JsonNegZero))>>,
    <<Field(B, TU64(7))>>,
    <<Field(B, TBool(TRUE))>>,
    <<Field(B, TError(<<"b", "o", "o", "m">>))>>,
    <<Field(B, TDebug(<<"D", "b", "g">>))>>,
    <<Field(B, TValue(VListable(<<VU64(1), VString(<<"s">>)>>)))>>,
    <<Field(B, TValue(VMappable(<< <<VBool(TRUE), VI64(-3)>>,
                                   <<VU64(1), VUnit>> >>)))>>,
    <<Field(B, TValue(VPath(<<>>)))>>,
    <<Field(K_name, TStr(Plain))>>,
    <<Field(K_target, TBool(FALSE))>>,
    <<Field(A, TI64(-3)), Field(B, TU64(7))>>,
    <<Field(B, TU64(7)), Field(A, TI64(-3))>>,
    <<Field(A, TI64(-3)), Field(B, TBool(TRUE)), Field(A, TStr(Plain))>>,
    <<Field(A, TStr(Plain)), Field(B, TValue(VPath(<<>>)))>>,
    SentinelAttrs }

SeqsUpTo(S, n) == UNION {[1..k -> S] : k \in 0..n}

(***************************************************************************)
(* State.  The registry is the subscriber's: span i has parent parent[i]    *)
(* (0 for a root) and the extension ext[i], Some(data) once the layer has   *)
(* attached a CustomLayerTracedData to it.  written is what the latest      *)
(* callback wrote to standard output, sinkLog the calls it made on it, and  *)
(* outcome how it ended.  call remembers the latest callback's arguments    *)
(* and the extensions as they were when it was called.  cell and results    *)
(* belong to a ScopeSerializer serialized on its own: the cell it holds     *)
(* and, for each serialization, what it started from and what it returned.  *)
(* adapter is one SerdeJsonAdapter and what its methods returned.  lock, pc *)
(* and stream belong to threads that emit events at the same time: the      *)
(* holder of the lock of standard output, each thread's position in         *)
(* on_event, and what standard output received, in order.                   *)
(*                                                                         *)
(* A callback of a span is one step: it works under the lock of the span's  *)
(* extensions.  on_event is several: it reads the extensions of its span    *)
(* for the entry "span", and the ScopeSerializer then reads the extensions  *)
(* of each span of the scope in turn, taking and releasing the lock of each *)
(* one; between two reads a callback on another thread may run.  inflight   *)
(* is the on_event (or the serialization of a ScopeSerializer) that has     *)
(* begun and not returned, None or Some of: the spans still to read (ids),  *)
(* the extensions as read so far (seen), and whether no other callback ran  *)
(* since it began (alone).                                                  *)
(***************************************************************************)
VARIABLES parent, ext, written, sinkLog, outcome, call, cell, results,
          adapter, lock, pc, stream, inflight

vars == <<parent, ext, written, sinkLog, outcome, call, cell, results,
          adapter, lock, pc, stream, inflight>>

\* The state of the threads and of the lock of standard output.
sinkVars == <<lock, pc, stream>>

\* No adapter has been made.
NoAdapter ==
  [doc |-> <<>>, value |-> <<>>, calls |-> <<>>, listHint |-> <<>>,
   mapHint |-> <<>>]

\* The metadata of span id: its callsite's target and name.
SpanMeta(id) == [target |-> APP, name |-> <<"s", Digits[id + 1]>>]

Reverse(seq) == [i \in 1..Len(seq) |-> seq[Len(seq) + 1 - i]]

\* Scope: the iterator from a span up to its root.
RECURSIVE ScopeIter(_, _)
ScopeIter(p, id) == IF id = 0 THEN <<>> ELSE <<id>> \o ScopeIter(p, p[id])

\* A slip: the scope walked as the iterator yields it, leaf first.
FromLeaf(p, id) == ScopeIter(p, id)

\* Scope::from_root
FromRoot(p, id) == Reverse(ScopeIter(p, id))

\* The data of the spans ids that have some, in the order of ids.
RECURSIVE DataOf(_, _)
\* A slip: the walk ends at the first span without data.
DataOfUntilMissing(e, ids) ==
  IF ids = <<>> THEN <<>>
  ELSE IF e[Head(ids)] = <<>> THEN <<>>
  ELSE <<e[Head(ids)][1]>> \o DataOf(e, Tail(ids))

DataOf(e, ids) ==
  IF ids = <<>> THEN <<>>
  ELSE (IF e[Head(ids)] = <<>> THEN <<>> ELSE <<e[Head(ids)][1]>>)
       \o DataOf(e, Tail(ids))

(***************************************************************************)
(* impl Serialize for ScopeSerializer.  c is the cell, Some(leaf) or None.  *)
(* The serializer is called once to open the sequence, once per element     *)
(* and once to end it; failAt is the call that returns an error (0: none).  *)
(* The result is [ok, elems, cell]: the elements serialized and the cell    *)
(* as the call leaves it.                                                   *)
(***************************************************************************)
\* The records the loop over scope.from_root() serializes.
ScopeRecords(c, p, e) ==
  IF c = <<>> THEN <<>> ELSE DataOf(e, FromRoot(p, c[1]))

\* The loop and seq.end() over the records recs, leaving the cell as left.
SerializeElements(recs, failAt, left) ==
  IF failAt \in 2..(Len(recs) + 1)
  THEN [ok |-> FALSE, elems |-> SubSeq(recs, 1, failAt - 2), cell |-> left]
  ELSE [ok |-> failAt # Len(recs) + 2, elems |-> recs, cell |-> left]

\* A slip: the scope is read from the cell and left in it.
ScopeSerializeKeeping(c, p, e, failAt) ==
  IF failAt = 1 THEN [ok |-> FALSE, elems |-> <<>>, cell |-> c]
  ELSE SerializeElements(ScopeRecords(c, p, e), failAt, c)

\* serialize_seq(None)?, then self.0.replace(None), the loop and seq.end().
ScopeSerialize(c, p, e, failAt) ==
  IF failAt = 1 THEN [ok |-> FALSE, elems |-> <<>>, cell |-> c]
  ELSE SerializeElements(ScopeRecords(c, p, e), failAt, <<>>)

\* The number of serializer calls ScopeSerialize makes when none fails.
ScopeSteps(c, p, e) == 2 + Len(ScopeRecords(c, p, e))

(***************************************************************************)
(* The bytes of a document: serde_json's compact output, as to_writer       *)
(* writes a map into the buffer of on_event.                                *)
(***************************************************************************)
RECURSIVE Escaped(_)
\* The characters of a string, a quote and a backslash escaped.
Escaped(s) ==
  IF s = <<>> THEN <<>>
  ELSE (IF Head(s) \in {"\"", "\\"} THEN <<"\\", Head(s)>> ELSE <<Head(s)>>)
       \o Escaped(Tail(s))

Quoted(s) == <<"\"">> \o Escaped(s) \o <<"\"">>

RECURSIVE RenderValue(_)
RECURSIVE RenderElements(_)
RECURSIVE RenderMembers(_)

\* The elements of an array, with commas between them.
RenderElements(items) ==
  IF items = <<>> THEN <<>>
  ELSE IF Len(items) = 1 THEN RenderValue(items[1])
  ELSE RenderValue(Head(items)) \o <<",">> \o RenderElements(Tail(items))

\* One entry of a map: "key":value.
RenderMember(entry) == Quoted(entry[1]) \o <<":">> \o RenderValue(entry[2])

\* The entries of a map, with commas between them.
RenderMembers(entries) ==
  IF entries = <<>> THEN <<>>
  ELSE IF Len(entries) = 1 THEN RenderMember(entries[1])
  ELSE RenderMember(Head(entries)) \o <<",">> \o RenderMembers(Tail(entries))

RenderValue(json) ==
  IF json.t = "null" THEN <<"n", "u", "l", "l">>
  ELSE IF json.t = "bool"
    THEN (IF json.v THEN <<"t", "r", "u", "e">>
          ELSE <<"f", "a", "l", "s", "e">>)
  ELSE IF json.t = "num"
    THEN (IF json.n = "float" THEN FloatStr(json.v[1], json.v[2], json.v[3])
          ELSE IntStr(json.v))
  ELSE IF json.t = "str" THEN Quoted(json.v)
  ELSE IF json.t = "arr" THEN <<"[">> \o RenderElements(json.v) \o <<"]">>
  ELSE <<"{">> \o RenderMembers(json.v) \o <<"}">>

\* The buffer of on_event for a map of these entries, ended, and the
\* newline pushed after it.
Line(entries) == <<"{">> \o RenderMembers(entries) \o <<"}", "\n">>

\* The number of whole entries, from entry i on, that fit in left bytes.
RECURSIVE Fit(_, _, _)
Fit(entries, i, left) ==
  IF i > Len(entries) THEN 0
  ELSE IF Len(RenderMember(entries[i])) + (IF i > 1 THEN 1 ELSE 0) > left
    THEN 0
  ELSE 1 + Fit(entries, i + 1,
               left - Len(RenderMember(entries[i])) - (IF i > 1 THEN 1 ELSE 0))

\* The entries that lie whole within the first wrote bytes of the line.
EntriesWithin(entries, wrote) ==
  SubSeq(entries, 1, Fit(entries, 1, wrote - 1))

(***************************************************************************)
(* serialize_on_event.  An event is [fields, level, target, span, now]:     *)
(* span is the span ctx.event_span finds for it (0 when it has none) and    *)
(* now the reading Utc::now() returns.  The map serializer is called once   *)
(* to open the map, once per entry (the calls of the ScopeSerializer lie    *)
(* inside the entry "spans") and once to end it; failAt is the call that    *)
(* returns an error (0: none).  The result is [panicked, ok, buf]: buf is   *)
(* the buffer, [entries, closed, nl], as it is when the function returns.   *)
(***************************************************************************)
Buffer(entries, closed, nl) ==
  [entries |-> entries, closed |-> closed, nl |-> nl]

\* if let Some(span) = ctx.event_span(event), if let Some(data) = ..: the
\* entry "span", when the event's span has data.  first is the extension
\* of that span as this read finds it, None for an event without a span.
SpanEntry(event, first) ==
  IF event.span # 0 /\ first # <<>>
  THEN << <<K_span, SerializeData(first[1])>> >>
  ELSE <<>>

\* A slip: the event's fields flattened into the top-level map.
EntriesFlattened(event, data, first) ==
  << <<K_timestamp, Str(event.now)>>,
     <<K_level, Str(format_level(event.level))>>,
     <<K_target, Str(event.target)>> >>
  \o data \o SpanEntry(event, first)

\* The entries before "spans".
EntriesBeforeSpans(event, data, first) ==
  << <<K_timestamp, Str(event.now)>>,
     <<K_level, Str(format_level(event.level))>>,
     <<K_target, Str(event.target)>>,
     <<K_fields, SerializeData(data)>> >>
  \o SpanEntry(event, first)

\* ctx.event_scope(event) in a fresh ScopeSerializer: Some(scope) or None.
EventScope(event) == IF event.span = 0 THEN <<>> ELSE <<event.span>>

\* The number of serializer calls serialize_on_event makes when none fails.
SerializeSteps(event, p, first, e) ==
  1 + 4 + Len(SpanEntry(event, first))
  + (IF event.span # 0 THEN ScopeSteps(EventScope(event), p, e) ELSE 0) + 1

\* What the call numbered k is about, of n calls, hasSpan telling whether
\* the entry "span" is among them.
StepOf(k, n, hasSpan) ==
  IF k = 0 THEN "none"
  ELSE IF k = 1 THEN "map"
  ELSE IF k = 2 THEN "timestamp"
  ELSE IF k = 3 THEN "level"
  ELSE IF k = 4 THEN "target"
  ELSE IF k = 5 THEN "fields"
  ELSE IF k = n THEN "end"
  ELSE IF k = 6 /\ hasSpan THEN "span"
  ELSE IF k = (IF hasSpan THEN 7 ELSE 6) THEN "spans.seq"
  ELSE IF k = n - 1 THEN "spans.end"
  ELSE "spans.elem"

StepName(event, p, first, e, k) ==
  StepOf(k, SerializeSteps(event, p, first, e), SpanEntry(event, first) # <<>>)

\* What serialize_on_event returns once every entry is serialized: Ok with
\* the closed map and the newline, or the error of SerializeMap::end.
Finished(entries, failAt) ==
  [panicked |-> FALSE, ok |-> failAt = 0,
   buf |-> Buffer(entries, failAt = 0, failAt = 0)]

\* What serialize_on_event returns when a ? returns early.
Failed(entries) ==
  [panicked |-> FALSE, ok |-> FALSE, buf |-> Buffer(entries, FALSE, FALSE)]

\* The elements of "spans", each as CustomLayerTracedData serializes.
SpansValue(elems) == Arr([i \in 1..Len(elems) |-> SerializeData(elems[i])])

\* A slip: an empty spans sequence is left out of the document.
SpansEntryUnlessEmpty(pre, failAt, sc) ==
  IF ~sc.ok THEN Failed(pre)
  ELSE IF sc.elems = <<>> THEN Finished(pre, failAt)
  ELSE Finished(Append(pre, <<K_spans, SpansValue(sc.elems)>>), failAt)

\* serialize_entry("spans", &scope_serializer)?, sc being what the
\* ScopeSerializer returned.
SpansEntry(pre, failAt, sc) ==
  IF ~sc.ok THEN Failed(pre)
  ELSE Finished(Append(pre, <<K_spans, SpansValue(sc.elems)>>), failAt)

\* serialize_map(None)? and the entries pre, then "spans" and the end.
SerializeEntries(event, p, e, failAt, pre) ==
  IF failAt \in 1..(1 + Len(pre)) THEN Failed(SubSeq(pre, 1, failAt - 2))
  ELSE IF event.span = 0 THEN Finished(pre, failAt)
  ELSE SpansEntry(pre, failAt,
                  ScopeSerialize(EventScope(event), p, e,
                                 IF failAt = 0 THEN 0
                                 ELSE failAt - (1 + Len(pre))))

\* After event.record(&mut visitor): a panic in the visitor unwinds.
SerializeVisited(event, p, first, e, failAt, visited) ==
  IF visited.panicked
  THEN [panicked |-> TRUE, ok |-> FALSE, buf |-> Buffer(<<>>, FALSE, FALSE)]
  ELSE SerializeEntries(event, p, e, failAt,
                        EntriesBeforeSpans(event, visited.data, first))

\* first is what the read for "span" finds and e what the ScopeSerializer
\* finds, each span read when the loop comes to it.
serialize_on_event(event, p, first, e, failAt) ==
  SerializeVisited(event, p, first, e, failAt,
                   RecordAll(EmptyData, event.fields))

(***************************************************************************)
(* The callbacks of the layer.  A panic unwinds into the application; the   *)
(* model follows the process no further.                                    *)
(***************************************************************************)
NoCall ==
  [op |-> "none", id |-> 0, found |-> TRUE, fields |-> <<>>, failAt |-> 0,
   step |-> "none", before |-> <<>>, pending |-> FALSE, alone |-> TRUE,
   first |-> <<>>, seen |-> <<>>]

SpanCall(op, id, found, fields) ==
  [NoCall EXCEPT !.op = op, !.id = id, !.found = found, !.fields = fields,
                 !.before = ext]

Init ==
  /\ parent = <<>>
  /\ ext = <<>>
  /\ written = <<>>
  /\ sinkLog = <<>>
  /\ outcome = "returned"
  /\ call = NoCall
  /\ cell = <<>>
  /\ results = <<>>
  /\ adapter = NoAdapter
  /\ lock = 0
  /\ pc = <<>>
  /\ stream = <<>>
  /\ inflight = <<>>

\* The metadata recorded after the attributes' visit r.
MetadataAfter(id, r) ==
  [data |-> record_metadata(r.data, SpanMeta(id)), panicked |-> r.panicked]

\* A slip: the attributes are recorded first and the metadata after them.
NewSpanDataAttrsFirst(id, attrs) ==
  MetadataAfter(id, RecordAll(EmptyData, attrs))

\* The data on_new_span builds: the metadata, then the attributes.
NewSpanData(id, attrs) ==
  RecordAll(record_metadata(EmptyData, SpanMeta(id)), attrs)

\* A slip: the values are recorded into fresh data that replaces the old.
RecordReplacing(data, values) == RecordAll(EmptyData, values)

\* on_record's visitor, made with the data attached to the span.
RecordOnto(data, values) == RecordAll(data, values)

\* A slip: the data is attached although the lookup missed.
AttachUnchecked(id, par, attrs, found, r) ==
  /\ parent' = Append(parent, par)
  /\ ext' = Append(ext, IF ~r.panicked THEN <<r.data>> ELSE <<>>)
  /\ outcome' = IF r.panicked THEN "panicked" ELSE "returned"
  /\ call' = SpanCall("on_new_span", id, found, attrs)

\* What a callback of a span leaves of inflight: an on_event on another
\* thread is no longer alone.
Disturbed(inf) ==
  IF inf = <<>> THEN <<>> ELSE <<[inf[1] EXCEPT !.alone = FALSE]>>

\* The end of on_new_span for span id with parent par: extensions.insert
\* when ctx.span(id) found the span and the visit r did not panic.
Attach(id, par, attrs, found, r) ==
  /\ parent' = Append(parent, par)
  /\ ext' = Append(ext, IF found /\ ~r.panicked THEN <<r.data>> ELSE <<>>)
  /\ outcome' = IF found /\ r.panicked THEN "panicked" ELSE "returned"
  /\ call' = SpanCall("on_new_span", id, found, attrs)

\* on_new_span for the span the registry has just created with parent par;
\* found is whether ctx.span(id) finds it.  Attrs are the attributes the
\* application may give and limit is the number of spans it creates.
NewSpan(limit, Attrs) ==
  /\ outcome # "panicked"
  /\ Len(parent) < limit
  /\ \E par \in 0..Len(parent), attrs \in Attrs, found \in BOOLEAN :
       Attach(Len(parent) + 1, par, attrs, found,
              NewSpanData(Len(parent) + 1, attrs))
  /\ written' = IF inflight = <<>> THEN <<>> ELSE written
  /\ sinkLog' = IF inflight = <<>> THEN <<>> ELSE sinkLog
  /\ inflight' = Disturbed(inflight)
  /\ UNCHANGED <<cell, results, adapter, sinkVars>>

\* A slip: the visitor's data becomes the record of every span that has
\* one.
MergeShared(id, values, found, r) ==
  /\ ext' = [j \in 1..Len(ext) |-> IF ext[j] = <<>> THEN <<>> ELSE <<r.data>>]
  /\ outcome' = IF r.panicked THEN "panicked" ELSE "returned"
  /\ call' = SpanCall("on_record", id, found, values)

\* The end of on_record: the visitor worked on the attached data in place,
\* so what it inserted before a panic stays.
Merge(id, values, found, r) ==
  /\ ext' = [ext EXCEPT ![id] = <<r.data>>]
  /\ outcome' = IF r.panicked THEN "panicked" ELSE "returned"
  /\ call' = SpanCall("on_record", id, found, values)

\* on_record when ctx.span(id) or get_mut finds nothing.
Skip(id, values, found) ==
  /\ UNCHANGED ext
  /\ outcome' = "returned"
  /\ call' = SpanCall("on_record", id, found, values)

\* on_record on a span of the registry; found is whether ctx.span(id) finds
\* it.
Record(Values) ==
  /\ outcome # "panicked"
  /\ \E id \in 1..Len(parent), values \in Values, found \in BOOLEAN :
       IF found /\ ext[id] # <<>>
       THEN Merge(id, values, found, RecordOnto(ext[id][1], values))
       ELSE Skip(id, values, found)
  /\ written' = IF inflight = <<>> THEN <<>> ELSE written
  /\ sinkLog' = IF inflight = <<>> THEN <<>> ELSE sinkLog
  /\ inflight' = Disturbed(inflight)
  /\ UNCHANGED <<parent, cell, results, adapter, sinkVars>>

SinkCall(op, ok) == [op |-> op, ok |-> ok]

\* What standard output received: the bytes, and of the line they belong
\* to the entries that are whole in them, whether the map is closed and
\* whether the newline is there.
Sent(entries, closed, nl, bytes) ==
  [entries |-> entries, closed |-> closed, nl |-> nl, bytes |-> bytes]

\* write_all that wrote the whole buffer.
Whole(buf) == <<Sent(buf.entries, TRUE, TRUE, Line(buf.entries))>>

\* What a write_all that fails after its first wrote bytes leaves.
Partial(buf, wrote) ==
  IF wrote = 0 THEN <<>>
  ELSE <<Sent(EntriesWithin(buf.entries, wrote),
              wrote = Len(Line(buf.entries)) - 1, FALSE,
              SubSeq(Line(buf.entries), 1, wrote))>>

\* A slip: the line is written and left unflushed.
StdoutUnflushed(buf, sink, wrote) ==
  IF sink = "write_err"
  THEN [written |-> Partial(buf, wrote),
        log |-> <<SinkCall("write_all", FALSE)>>, flush |-> FALSE]
  ELSE [written |-> Whole(buf), log |-> <<SinkCall("write_all", TRUE)>>,
        flush |-> FALSE]

\* A slip: a failed write is tried once more.
StdoutRetrying(buf, sink, wrote) ==
  IF sink = "write_err"
  THEN [written |-> Partial(buf, wrote),
        log |-> <<SinkCall("write_all", FALSE), SinkCall("write_all", FALSE)>>,
        flush |-> FALSE]
  ELSE [written |-> Whole(buf), log |-> <<SinkCall("write_all", TRUE)>>,
        flush |-> TRUE]

\* stdout.write_all(&serialized): sink is how standard output behaves ("ok"
\* or "write_err") and wrote the number of bytes of the line a failing
\* write_all has written; flush tells whether on_event goes on to
\* stdout.flush(), which it does unless the write failed.
Stdout(buf, sink, wrote) ==
  IF sink = "write_err"
  THEN [written |-> Partial(buf, wrote),
        log |-> <<SinkCall("write_all", FALSE)>>, flush |-> FALSE]
  ELSE [written |-> Whole(buf), log |-> <<SinkCall("write_all", TRUE)>>,
        flush |-> TRUE]

\* A slip: what the buffer holds is written although serialization failed.
OnSerializeErrorWriting(r) ==
  [written |-> <<Sent(r.buf.entries, r.buf.closed, r.buf.nl,
                      <<"{">> \o RenderMembers(r.buf.entries))>>,
   log |-> <<SinkCall("write_all", TRUE)>>, flush |-> FALSE]

\* Err(_) => return
OnSerializeError(r) == [written |-> <<>>, log |-> <<>>, flush |-> FALSE]

\* What on_event does with r, the return of serialize_on_event, up to the
\* return of write_all.
Output(r, sink, wrote) ==
  IF r.panicked THEN [written |-> <<>>, log |-> <<>>, flush |-> FALSE]
  ELSE IF ~r.ok THEN OnSerializeError(r)
  ELSE Stdout(r.buf, sink, wrote)

\* The byte counts after which a write_all of line may fail: every one, or
\* a few of them: nothing, the opening brace, the middle of the first key,
\* and all but the newline.
CutsOf(line, every) ==
  IF every THEN 0..(Len(line) - 1)
  ELSE {k \in {0, 1, 10, Len(line) - 1} : k < Len(line)}

\* The event of callsite ev in the span `span` (0: none) at the time now.
EventIn(ev, span, now) ==
  [fields |-> ev.fields, level |-> ev.level, target |-> ev.target,
   span |-> span, now |-> now]

\* What call remembers of an on_event for event.
EventCall(event) ==
  [NoCall EXCEPT !.op = "on_event", !.id = event.span,
                 !.fields = event.fields, !.before = ext]

\* The on_event for event that has read first for the entry "span" and has
\* the spans ids to read, none of n read yet.  phase is "walk" until
\* write_all has returned and "flush" from then on.
InFlight(event, first, ids, n) ==
  [event |-> event, first |-> first, ids |-> ids,
   seen |-> [i \in 1..n |-> <<>>], alone |-> TRUE, before |-> ext,
   phase |-> "walk"]

\* What call remembers of the on_event inf, at the serializer call failAt.
CallOf(inf, failAt) ==
  [EventCall(inf.event) EXCEPT
     !.failAt = failAt,
     !.step = StepName(inf.event, parent, inf.first, inf.seen, failAt),
     !.before = inf.before, !.alone = inf.alone,
     !.first = inf.first, !.seen = inf.seen]

\* on_event returns from serialize_on_event's error at the serializer call
\* failAt, having read what inf tells.
Abandons(inf, failAt, r) ==
  /\ written' = Output(r, "ok", 0).written
  /\ sinkLog' = Output(r, "ok", 0).log
  /\ outcome' = "returned"
  /\ call' = CallOf(inf, failAt)
  /\ inflight' = <<>>

AbandonsAt(inf, failAt) ==
  Abandons(inf, failAt,
           serialize_on_event(inf.event, parent, inf.first, inf.seen, failAt))

\* The extension of the event's span as the read for "span" finds it; the
\* read is not made when an earlier serializer call fails.
FirstRead(event, failAt) ==
  IF event.span = 0 \/ failAt \in 1..5 THEN <<>> ELSE ext[event.span]

\* The serializer calls up to serialize_seq of the ScopeSerializer, the
\* last one before the first span of the scope is read.
EarlySteps(event) ==
  5 + Len(SpanEntry(event, FirstRead(event, 0)))
  + (IF event.span = 0 THEN 0 ELSE 1)

\* on_event up to the walk of the scope: event.record(&mut visitor), which
\* may panic, serialize_map and the entries up to "fields", the read of the
\* extensions of the event's span with the entry "span", and serialize_seq
\* for "spans"; failAt is the one of these serializer calls that fails (0:
\* none).
Begins(event, visited, failAt) ==
  IF visited.panicked
  THEN /\ failAt = 0
       /\ outcome' = "panicked"
       /\ inflight' = <<>>
       /\ call' = EventCall(event)
       /\ written' = <<>>
       /\ sinkLog' = <<>>
  ELSE IF failAt # 0
    THEN AbandonsAt(InFlight(event, FirstRead(event, failAt), <<>>, Len(ext)),
                    failAt)
  ELSE /\ outcome' = "returned"
       /\ inflight' =
            <<InFlight(event, FirstRead(event, 0),
                       IF event.span = 0 THEN <<>>
                       ELSE FromRoot(parent, event.span),
                       Len(ext))>>
       /\ call' = [EventCall(event) EXCEPT !.pending = TRUE]
       /\ written' = <<>>
       /\ sinkLog' = <<>>

\* on_event for an event of the application begins.
on_event ==
  /\ outcome # "panicked"
  /\ inflight = <<>>
  /\ \E ev \in Events, span \in 0..Len(parent), now \in Times :
       \E failAt \in 0..EarlySteps(EventIn(ev, span, now)) :
         Begins(EventIn(ev, span, now),
                RecordAll(EmptyData, EventIn(ev, span, now).fields), failAt)
  /\ UNCHANGED <<parent, ext, cell, results, adapter, sinkVars>>

\* inf after span.extensions() of the next span of the scope, read as it
\* is now.
Read(inf) ==
  [inf EXCEPT !.ids = Tail(inf.ids),
              !.seen = [inf.seen EXCEPT ![Head(inf.ids)] = ext[Head(inf.ids)]]]

\* One turn of the loop of ScopeSerializer::serialize: the extensions of
\* the next span are read and its data, if any, serialized as an element.
scope_read ==
  /\ outcome # "panicked"
  /\ inflight # <<>>
  /\ inflight[1].ids # <<>>
  /\ inflight' = <<Read(inflight[1])>>
  /\ UNCHANGED <<parent, ext, written, sinkLog, outcome, call, cell, results,
                 adapter, sinkVars>>

\* The serializer call of the element that inf, a walk for event of what p
\* and inf.seen tell, serialized last.
ElementStep(event, p, inf) ==
  5 + Len(SpanEntry(event, inf.first)) + 1
  + Len(ScopeRecords(EventScope(event), p, inf.seen))

\* One turn of the loop in which seq.serialize_element(data)? fails: the
\* spans after this one are not read and on_event returns.
event_element_fails ==
  /\ outcome # "panicked"
  /\ inflight # <<>>
  /\ inflight[1].ids # <<>>
  /\ ext[Head(inflight[1].ids)] # <<>>
  /\ AbandonsAt(Read(inflight[1]),
                ElementStep(inflight[1].event, parent, Read(inflight[1])))
  /\ UNCHANGED <<parent, ext, cell, results, adapter, sinkVars>>

\* The serializer calls after the walk: seq.end() of "spans", for an event
\* in a span, and SerializeMap::end.
EndSteps(event, p, inf) ==
  {k \in 1..SerializeSteps(event, p, inf.first, inf.seen) :
     k > SerializeSteps(event, p, inf.first, inf.seen)
         - (IF event.span = 0 THEN 1 ELSE 2)}

\* write_all with the line of r has returned out: on_event returns after a
\* failed write and goes on to flush after one that succeeded.
Written(inf, out) ==
  /\ written' = out.written
  /\ sinkLog' = out.log
  /\ outcome' = "returned"
  /\ call' = [CallOf(inf, 0) EXCEPT !.pending = out.flush]
  /\ inflight' = IF out.flush THEN <<[inf EXCEPT !.phase = "flush"]>> ELSE <<>>

\* The rest of serialize_on_event for inf, every span of the scope read,
\* and stdout.write_all.
WriteAll(inf, every) ==
  \/ \E failAt \in EndSteps(inf.event, parent, inf) : AbandonsAt(inf, failAt)
  \/ \E sink \in {"ok", "write_err"} :
       \E wrote \in (IF sink = "write_err"
                     THEN CutsOf(Line(serialize_on_event(
                                        inf.event, parent, inf.first,
                                        inf.seen, 0).buf.entries), every)
                     ELSE {0}) :
         Written(inf, Output(serialize_on_event(inf.event, parent, inf.first,
                                                inf.seen, 0), sink, wrote))

EventWrites(every) ==
  /\ outcome # "panicked"
  /\ inflight # <<>>
  /\ inflight[1].ids = <<>>
  /\ inflight[1].phase = "walk"
  /\ WriteAll(inflight[1], every)
  /\ UNCHANGED <<parent, ext, cell, results, adapter, sinkVars>>

\* The end of serialization and write_all; a failing write is cut at one
\* of a few places.
event_write == EventWrites(FALSE)

\* let _ = stdout.flush(), which takes the lock of standard output anew,
\* and the return of on_event.
event_flush ==
  /\ outcome # "panicked"
  /\ inflight # <<>>
  /\ inflight[1].phase = "flush"
  /\ \E ok \in BOOLEAN : sinkLog' = Append(sinkLog, SinkCall("flush", ok))
  /\ call' = CallOf(inflight[1], 0)
  /\ inflight' = <<>>
  /\ UNCHANGED <<parent, ext, written, outcome, cell, results, adapter,
                 sinkVars>>

on_new_span == NewSpan(MaxSpans, SpanAttrs)

on_record == Record(SpanAttrs)

Next ==
  \/ on_new_span
  \/ on_record
  \/ on_event
  \/ scope_read
  \/ event_element_fails
  \/ event_write
  \/ event_flush

Spec == Init /\ [][Next]_vars

\* The sink alone: one event, after at most one span, whose failing write
\* is cut after every number of bytes.
on_new_span_once ==
  /\ call.op # "on_event"
  /\ NewSpan(1, SpanAttrs)

on_event_once ==
  /\ call.op # "on_event"
  /\ on_event

event_write_cut == EventWrites(TRUE)

NextSink ==
  \/ on_new_span_once
  \/ on_event_once
  \/ scope_read
  \/ event_element_fails
  \/ event_write_cut
  \/ event_flush

SpecSink == Init /\ [][NextSink]_vars

(***************************************************************************)
(* One span followed through values of every type: the same callbacks,      *)
(* with the attributes TypedAttrs.                                          *)
(***************************************************************************)
on_new_span_typed == NewSpan(MaxTypedSpans, TypedAttrs)

on_record_typed == Record(TypedAttrs)

NextSpan == on_new_span_typed \/ on_record_typed

SpecSpan == Init /\ [][NextSpan]_vars

(***************************************************************************)
(* One ScopeSerializer serialized several times.  The registry is one the   *)
(* layer has filled: every span carries the data on_new_span gave it, or    *)
(* none where the lookup missed, and the serializer was made by             *)
(* ScopeSerializer::new for the scope of one of the spans.                  *)
(***************************************************************************)
\* The attributes of the spans of such a registry.
ScopeAttrs == {<<>>, <<Field(A, TI64(1))>>}

\* The parents of n spans: a span's parent was created before it.
Parents(n) == {p \in [1..n -> 0..n] : \A i \in 1..n : p[i] < i}

\* The extensions of n spans after on_new_span.
Extensions(n) ==
  {e \in [1..n -> {<<>>} \cup {<<NewSpanData(i, a).data>> :
                                  i \in 1..n, a \in ScopeAttrs}] :
     \A i \in 1..n : e[i] # <<>> => Get(e[i][1], K_name) = Str(SpanMeta(i).name)}

InitScope ==
  /\ \E n \in 1..MaxSpans :
       /\ parent \in Parents(n)
       /\ ext \in Extensions(n)
       /\ \E leaf \in 1..n : cell = <<leaf>>
  /\ written = <<>>
  /\ sinkLog = <<>>
  /\ outcome = "returned"
  /\ call = NoCall
  /\ results = <<>>
  /\ adapter = NoAdapter
  /\ lock = 0
  /\ pc = <<>>
  /\ stream = <<>>
  /\ inflight = <<>>

\* One serialization, begun with the cell c, that returned r; seen is what
\* its reads found, alone whether no callback ran meanwhile, and before the
\* records when it began.
Serialized(c, failAt, r, seen, alone, before) ==
  /\ cell' = r.cell
  /\ results' = Append(results, [cell |-> c, failAt |-> failAt,
                                 ok |-> r.ok, elems |-> r.elems,
                                 seen |-> seen, alone |-> alone,
                                 before |-> before])

\* The serialization that has taken the scope out of the cell c and has
\* the spans ids to read.
Walking(c, ids) ==
  [cell |-> c, ids |-> ids, seen |-> [i \in 1..Len(ext) |-> <<>>],
   alone |-> TRUE, before |-> ext]

\* ScopeSerializer::serialize begins: serialize_seq(None)?, which may fail
\* (failAt = 1), then self.0.replace(None).
ScopeBegins(failAt) ==
  IF failAt = 1
  THEN /\ Serialized(cell, 1, ScopeSerialize(cell, parent, ext, 1), ext, TRUE,
                    ext)
       /\ inflight' = <<>>
  ELSE /\ cell' = ScopeSerialize(cell, parent, ext, 0).cell
       /\ inflight' =
            <<Walking(cell, IF cell = <<>> THEN <<>>
                            ELSE FromRoot(parent, cell[1]))>>
       /\ UNCHANGED results

scope_serialize ==
  /\ Len(results) < MaxSerialize
  /\ inflight = <<>>
  /\ \E failAt \in {0, 1} : ScopeBegins(failAt)
  /\ UNCHANGED <<parent, ext, written, sinkLog, outcome, call, adapter,
                 sinkVars>>

\* The serialization inf returns, failAt being the serializer call that
\* failed (0: none).
ScopeReturns(inf, failAt) ==
  /\ Serialized(inf.cell, failAt,
                ScopeSerialize(inf.cell, parent, inf.seen, failAt),
                inf.seen, inf.alone, inf.before)
  /\ inflight' = <<>>

\* One turn of the loop in which seq.serialize_element(data)? fails: the
\* spans after this one are not read.
scope_element_fails ==
  /\ inflight # <<>>
  /\ inflight[1].ids # <<>>
  /\ ext[Head(inflight[1].ids)] # <<>>
  /\ ScopeReturns(Read(inflight[1]),
                  1 + Len(ScopeRecords(inflight[1].cell, parent,
                                       Read(inflight[1]).seen)))
  /\ UNCHANGED <<parent, ext, written, sinkLog, outcome, call, adapter,
                 sinkVars>>

\* The loop has read every span: seq.end(), which may fail.
scope_end ==
  /\ inflight # <<>>
  /\ inflight[1].ids = <<>>
  /\ \E failAt \in {0, ScopeSteps(inflight[1].cell, parent,
                                   inflight[1].seen)} :
       ScopeReturns(inflight[1], failAt)
  /\ UNCHANGED <<parent, ext, written, sinkLog, outcome, call, adapter,
                 sinkVars>>

\* on_record on another thread while the serializer walks.
on_record_scope == Record(ScopeAttrs)

NextScope ==
  \/ scope_serialize
  \/ scope_read
  \/ scope_element_fails
  \/ scope_end
  \/ on_record_scope

SpecScope == InitScope /\ [][NextScope]_vars

(***************************************************************************)
(* One SerdeJsonAdapter over a document: its methods are called, and its    *)
(* value is given to a span as the attribute json, as main does with the    *)
(* fields of its events.                                                    *)
(***************************************************************************)
K_json == <<"j", "s", "o", "n">>

\* Documents without elements of their own; one string starts with the
\* prefix the layer looks for in the strings it records.
Scalars ==
  { Null, Bool(TRUE), Bool(FALSE), PosInt(0), PosInt(7), NegInt(-3),
    Str(<<>>), Str(A), Str(SPECIAL_JSON_PREFIX \o <<"1">>) }

Floats == {Float(15, 1), Float(-2, 0), NegZero}

\* The arrays of up to MaxItems elements of S.
Arrays(S) == {Arr(items) : items \in SeqsUpTo(S, MaxItems)}

\* The objects over S with keys among a and b, as a serde_json::Map holds
\* them.
Objects(S) ==
  {Obj(<<>>)}
    \cup {Obj(<< <<k, x>> >>) : k \in {A, B}, x \in S}
    \cup {Obj(<< <<A, x>>, <<B, y>> >>) : x \in S, y \in S}

Flat == {Null, PosInt(7), NegInt(-3), Str(B)}

Inner ==
  { Float(15, 1), Arr(<<Bool(TRUE), Str(A)>>),
    Obj(<< <<A, PosInt(0)>>, <<B, Arr(<<Null>>)>> >>) }

\* The documents a SerdeJsonAdapter is made over: those whose numbers at
\* the top are integers, and those where they are floats.
Documents == Scalars \cup Arrays(Flat) \cup Objects(Flat)

FloatDocuments == Floats \cup Arrays(Inner) \cup Objects(Inner)

InitAdapter ==
  /\ parent = <<>>
  /\ ext = <<>>
  /\ written = <<>>
  /\ sinkLog = <<>>
  /\ outcome = "returned"
  /\ call = NoCall
  /\ cell = <<>>
  /\ results = <<>>
  /\ \/ \E json \in Documents :
          adapter = [NoAdapter EXCEPT !.doc = <<json>>]
     \/ \E json \in FloatDocuments :
          adapter = [NoAdapter EXCEPT !.doc = <<json>>]
  /\ lock = 0
  /\ pc = <<>>
  /\ stream = <<>>
  /\ inflight = <<>>

\* What the calls on the adapter leave alone.
layerVars ==
  <<parent, ext, written, sinkLog, outcome, call, cell, results, sinkVars,
    inflight>>

\* adapter.as_value()
adapter_as_value ==
  /\ adapter.value = <<>>
  /\ adapter' = [adapter EXCEPT !.value = <<as_value(adapter.doc[1])>>]
  /\ UNCHANGED layerVars

\* adapter.visit(visitor)
adapter_visit ==
  /\ adapter.calls = <<>>
  /\ adapter' = [adapter EXCEPT !.calls = <<visit(adapter.doc[1])>>]
  /\ UNCHANGED layerVars

\* Listable::size_hint(&adapter)
listable_size_hint ==
  /\ adapter.listHint = <<>>
  /\ adapter' =
       [adapter EXCEPT !.listHint = <<ListableSizeHint(adapter.doc[1])>>]
  /\ UNCHANGED layerVars

\* Mappable::size_hint(&adapter)
mappable_size_hint ==
  /\ adapter.mapHint = <<>>
  /\ adapter' =
       [adapter EXCEPT !.mapHint = <<MappableSizeHint(adapter.doc[1])>>]
  /\ UNCHANGED layerVars

\* on_new_span for a span with the attribute json = adapter.as_value().
on_new_span_json ==
  NewSpan(MaxTypedSpans, {<<Field(K_json, TValue(as_value(adapter.doc[1])))>>})

NextAdapter ==
  \/ adapter_as_value
  \/ adapter_visit
  \/ listable_size_hint
  \/ mappable_size_hint
  \/ on_new_span_json

SpecAdapter == InitAdapter /\ [][NextAdapter]_vars

(***************************************************************************)
(* The end of on_event on several threads at once, each with the line of    *)
(* its event serialized.  std::io::stdout() is a handle on the shared       *)
(* standard output; every call on the handle takes the lock of standard     *)
(* output for itself: write_all holds it over all the writes it needs for   *)
(* the line, and flush takes it again.  stream is what standard output      *)
(* received: [thread, op, n], the n-th write of a thread's line or its      *)
(* flush.                                                                   *)
(***************************************************************************)
Threads == 1..MaxThreads

At(at, done) == [at |-> at, done |-> done]

InitThreads ==
  /\ parent = <<>>
  /\ ext = <<>>
  /\ written = <<>>
  /\ sinkLog = <<>>
  /\ outcome = "returned"
  /\ call = NoCall
  /\ cell = <<>>
  /\ results = <<>>
  /\ adapter = NoAdapter
  /\ lock = 0
  /\ pc = [t \in Threads |-> At("serialized", 0)]
  /\ stream = <<>>
  /\ inflight = <<>>

\* What the threads leave alone.
eventVars ==
  <<parent, ext, written, sinkLog, outcome, call, cell, results, adapter,
    inflight>>

\* A slip: write_all writes without the lock of standard output.
LockFree(t) == 0

\* The holder of the lock once thread t has taken it.
LockedBy(t) == t

\* stdout.write_all(&serialized) begins: the lock is taken.
WriteAllBegins(t) ==
  /\ pc[t].at = "serialized"
  /\ lock = 0
  /\ lock' = LockedBy(t)
  /\ pc' = [pc EXCEPT ![t] = At("write_all", 0)]
  /\ UNCHANGED stream

\* One write of the loop of write_all: the next part of the line.
Writes(t) ==
  /\ pc[t].at = "write_all"
  /\ pc[t].done < MaxWrites
  /\ stream' = Append(stream, [thread |-> t, op |-> "write",
                               n |-> pc[t].done + 1])
  /\ pc' = [pc EXCEPT ![t] = At("write_all", pc[t].done + 1)]
  /\ UNCHANGED lock

\* write_all returns Ok: the line is written and the lock released.
WriteAllReturns(t) ==
  /\ pc[t].at = "write_all"
  /\ pc[t].done = MaxWrites
  /\ lock' = 0
  /\ pc' = [pc EXCEPT ![t] = At("written", MaxWrites)]
  /\ UNCHANGED stream

\* A write fails: write_all returns Err, the lock is released and on_event
\* returns.
WriteAllFails(t) ==
  /\ pc[t].at = "write_all"
  /\ pc[t].done < MaxWrites
  /\ lock' = 0
  /\ pc' = [pc EXCEPT ![t] = At("returned", pc[t].done)]
  /\ UNCHANGED stream

\* let _ = stdout.flush(): the lock is taken for the flush and released,
\* and on_event returns.
Flushes(t) ==
  /\ pc[t].at = "written"
  /\ lock = 0
  /\ stream' = Append(stream, [thread |-> t, op |-> "flush", n |-> 0])
  /\ pc' = [pc EXCEPT ![t] = At("returned", MaxWrites)]
  /\ UNCHANGED lock

write_all_begins == (\E t \in Threads : WriteAllBegins(t)) /\ UNCHANGED eventVars

write == (\E t \in Threads : Writes(t)) /\ UNCHANGED eventVars

write_all_returns ==
  (\E t \in Threads : WriteAllReturns(t)) /\ UNCHANGED eventVars

write_all_fails == (\E t \in Threads : WriteAllFails(t)) /\ UNCHANGED eventVars

flush == (\E t \in Threads : Flushes(t)) /\ UNCHANGED eventVars

NextThreads ==
  \/ write_all_begins
  \/ write
  \/ write_all_returns
  \/ write_all_fails
  \/ flush

SpecThreads == InitThreads /\ [][NextThreads]_vars

(***************************************************************************)
(* Properties.                                                              *)
(***************************************************************************)
IsPrefix(a, b) == Len(a) <= Len(b) /\ SubSeq(b, 1, Len(a)) = a

BaseKeys == <<K_timestamp, K_level, K_target, K_fields>>

TopLevelOrders ==
  { BaseKeys, BaseKeys \o <<K_span>>, BaseKeys \o <<K_spans>>,
    BaseKeys \o <<K_span, K_spans>> }

\* The latest callback was an on_event that wrote one whole line.
WroteLine ==
  call.op = "on_event" /\ Len(written) = 1 /\ written[1].closed /\ written[1].nl

\* ids is the chain of spans from a root down to leaf.
IsChain(ids, leaf) ==
  /\ ids # <<>>
  /\ ids[Len(ids)] = leaf
  /\ parent[ids[1]] = 0
  /\ \A i \in 2..Len(ids) : parent[ids[i]] = ids[i - 1]

Chains(leaf) ==
  {ids \in SeqsUpTo(1..Len(parent), Len(parent)) : IsChain(ids, leaf)}

\* The records e holds of the spans ids that have one, in the order of ids.
RecordsIn(e, ids) ==
  LET has == SelectSeq(ids, LAMBDA i : e[i] # <<>>)
  IN [k \in 1..Len(has) |-> e[has[k]][1]]

\* The current records of the spans ids that have one, in the order of ids.
RecordsOf(ids) == RecordsIn(ext, ids)

\* The latest callback was an on_event that wrote one whole line while no
\* callback of a span ran on another thread.
WroteLineAlone == WroteLine /\ call.alone

\* C1: whatever on_event writes, a whole line or the part of one a failing
\* write let through, has its top-level keys in the order timestamp, level,
\* target, fields, then span if present, then spans if present, each at
\* most once; a whole line has the first four at least.
C1_TopLevelKeyOrder ==
  call.op = "on_event" =>
    \A i \in 1..Len(written) :
      /\ \E order \in TopLevelOrders : IsPrefix(Keys(written[i].entries), order)
      /\ written[i].closed => Keys(written[i].entries) \in TopLevelOrders

\* A whole line with span and spans, for an event that has fields named
\* span and timestamp, in a span that has an attribute named spans.
C1_Witness ==
  /\ WroteLine
  /\ Keys(written[1].entries) = BaseKeys \o <<K_span, K_spans>>
  /\ Keys(written[1].entries[4][2].v) = <<K_span, K_timestamp>>
  /\ HasKey(written[1].entries[5][2].v, K_spans)

\* C2: in a whole line written for an event in a span whose chain of spans
\* all have records, span is the record of the enclosing span and spans is
\* the records of the chain, root first and enclosing span last, each as
\* on_event read it; when no callback of a span ran during the on_event,
\* these are the current records, those the earlier on_new_span and
\* on_record calls left.
C2_SpanAndSpans ==
  (WroteLine /\ call.id # 0) =>
    \A ids \in Chains(call.id) :
      (\A i \in 1..Len(ids) : ext[ids[i]] # <<>>) =>
        /\ Keys(written[1].entries) = BaseKeys \o <<K_span, K_spans>>
        /\ written[1].entries[5][2] = Obj(call.first[1])
        /\ written[1].entries[6][2]
             = Arr([i \in 1..Len(ids) |-> Obj(call.seen[ids[i]][1])])
        /\ call.alone =>
             /\ written[1].entries[5][2] = Obj(ext[call.id][1])
             /\ written[1].entries[6][2]
                  = Arr([i \in 1..Len(ids) |-> Obj(ext[ids[i]][1])])

\* An event in span 2, child of span 1, both with records, the child's
\* with an attribute of its own.
C2_Witness ==
  /\ WroteLineAlone
  /\ call.id = 2
  /\ parent = <<0, 1>>
  /\ ext[1] # <<>>
  /\ ext[2] # <<>>
  /\ Len(ext[2][1]) = 3
  /\ Len(written[1].entries[6][2].v) = 2

\* The latest callback was an on_new_span or an on_record that changed the
\* record of its span and returned.
Recorded ==
  /\ call.op \in {"on_new_span", "on_record"}
  /\ outcome = "returned"
  /\ call.found
  /\ call.op = "on_record" => call.before[call.id] # <<>>

\* The document the callback of field f stores.
Doc(f) == VisitField(EmptyData, f).data[1][2]

\* The insertions the record of the latest callback's span has seen: those
\* that made it what it was before, then the callback's own.
Insertions ==
  (IF call.op = "on_new_span"
   THEN << <<K_target, Str(SpanMeta(call.id).target)>>,
           <<K_name, Str(SpanMeta(call.id).name)>> >>
   ELSE call.before[call.id][1])
  \o [i \in 1..Len(call.fields) |-> <<call.fields[i].name, Doc(call.fields[i])>>]

\* The keys ks without repetitions, in the order of their first occurrence.
RECURSIVE Distinct(_)
Distinct(ks) ==
  IF ks = <<>> THEN <<>>
  ELSE LET d == Distinct(SubSeq(ks, 1, Len(ks) - 1))
       IN IF \E i \in 1..Len(d) : d[i] = ks[Len(ks)] THEN d
          ELSE Append(d, ks[Len(ks)])

\* The value of the last insertion of key k among ins.
LastValue(ins, k) ==
  ins[CHOOSE i \in 1..Len(ins) :
        ins[i][1] = k /\ \A j \in (i + 1)..Len(ins) : ins[j][1] # k][2]

\* C3: after the insertions of on_new_span and of every later on_record, the
\* record holds each inserted key once, in the order of the keys' first
\* insertions, each with the value of its last insertion.
C3_InsertionOrder ==
  Recorded =>
    /\ Keys(ext[call.id][1]) = Distinct(Keys(Insertions))
    /\ \A i \in 1..Len(ext[call.id][1]) :
         ext[call.id][1][i][2] = LastValue(Insertions, ext[call.id][1][i][1])

\* An on_record that gave a new value to a key that was not the last one.
C3_Witness ==
  /\ Recorded
  /\ call.op = "on_record"
  /\ \E i \in 3..(Len(call.before[call.id][1]) - 1) :
       /\ \E j \in 1..Len(call.fields) :
            call.fields[j].name = call.before[call.id][1][i][1]
       /\ ext[call.id][1][i][2] # call.before[call.id][1][i][2]

\* C4: every callback returns to its caller; none panics.
C4_NoPanic == outcome = "returned"

\* What standard output reported failed.
SinkFailed == \E i \in 1..Len(sinkLog) : ~sinkLog[i].ok

\* C5: when write_all or flush fails, after whatever number of bytes,
\* on_event returns, having called write_all once, flush at most once and
\* only after a write that succeeded, and having changed no span's record.
C5_SinkFailure ==
  (call.op = "on_event" /\ SinkFailed) =>
    /\ outcome = "returned"
    /\ call.alone => ext = call.before
    /\ Cardinality({i \in 1..Len(sinkLog) : sinkLog[i].op = "write_all"}) = 1
    /\ Cardinality({i \in 1..Len(sinkLog) : sinkLog[i].op = "flush"}) <= 1
    /\ ~sinkLog[1].ok => Len(sinkLog) = 1

\* A write that failed within the first key of the line, for an event in a
\* span with a record.
C5_Witness ==
  /\ call.op = "on_event"
  /\ sinkLog = <<SinkCall("write_all", FALSE)>>
  /\ Len(written) = 1
  /\ written[1].bytes = <<"{", "\"", "t", "i", "m", "e", "s", "t", "a", "m">>
  /\ written[1].entries = <<>>
  /\ call.id # 0
  /\ ext[call.id] # <<>>

\* C6: when a call of the serializer fails, whichever it is, on_event calls
\* nothing on standard output and nothing is written.
C6_SerializeFailure ==
  (call.op = "on_event" /\ call.failAt # 0) =>
    written = <<>> /\ sinkLog = <<>>

\* The failure of the first element of spans, after every other entry and
\* before the event's own span, the second of the scope, is read.
C6_Witness ==
  /\ call.op = "on_event"
  /\ call.step = "spans.elem"
  /\ written = <<>>
  /\ call.id = 2
  /\ call.seen[1] # <<>>
  /\ call.seen[2] = <<>>
  /\ ext[2] # <<>>

\* The field numbered i is the last of the latest callback's fields with
\* its name, so that what it stored is what the record holds.
IsLast(i) ==
  \A j \in (i + 1)..Len(call.fields) :
    call.fields[j].name # call.fields[i].name

\* What record_str is to store for the string v: the document the rest
\* parses to when v starts with the sentinel and the rest parses, else v.
SentinelExpected(v) ==
  IF ~IsPrefix(SPECIAL_JSON_PREFIX, v) THEN Str(v)
  ELSE LET rest == SubSeq(v, Len(SPECIAL_JSON_PREFIX) + 1, Len(v))
       IN IF FromStr(rest) # <<>> THEN FromStr(rest)[1] ELSE Str(v)

\* The documents of the strings of the model, written out.
SentinelCases ==
  /\ SentinelExpected(Plain) = Str(Plain)
  /\ SentinelExpected(JsonObject)
       = Obj(<< <<<<"k">>, Arr(<<PosInt(1), Bool(TRUE)>>)>> >>)
  /\ SentinelExpected(JsonString) = Str(<<"s">>)
  /\ SentinelExpected(JsonNegZero) = Arr(<<NegZero, NegZero>>)
  /\ SentinelExpected(NotJson) = Str(NotJson)
  /\ SentinelExpected(OnlyPrefix) = Str(OnlyPrefix)

\* C7: a string recorded through record_str is stored under its field's name
\* as the document parsed from what follows the sentinel when it starts with
\* the sentinel and the rest parses, as the whole string, sentinel included,
\* when the rest does not parse, and as it is when it has no sentinel.
C7_Sentinel ==
  /\ SentinelCases
  /\ Recorded =>
       \A i \in 1..Len(call.fields) :
         (call.fields[i].val.t = "str" /\ IsLast(i)) =>
           Get(ext[call.id][1], call.fields[i].name)
             = SentinelExpected(call.fields[i].val.v)

\* One call that recorded a sentinel with a document, a sentinel with text
\* that is no document, and a plain string.
C7_Witness ==
  /\ Recorded
  /\ call.fields = SentinelAttrs
  /\ Get(ext[call.id][1], A) = Obj(<< <<<<"k">>, Arr(<<PosInt(1), Bool(TRUE)>>)>> >>)
  /\ Get(ext[call.id][1], B) = Str(NotJson)
  /\ Get(ext[call.id][1], K_name) = Str(Plain)

\* The names of the latest callback's fields.
Names == {call.fields[i].name : i \in 1..Len(call.fields)}

\* C8: an on_record on a span that has a record keeps every key where it
\* was, with its value unless the key is among the recorded fields, gives
\* those among them the recorded value, and puts the new keys after the old.
C8_Merge ==
  (/\ call.op = "on_record"
   /\ call.found
   /\ call.before[call.id] # <<>>) =>
    /\ ext[call.id] # <<>>
    /\ IsPrefix(Keys(call.before[call.id][1]), Keys(ext[call.id][1]))
    /\ \A i \in 1..Len(call.before[call.id][1]) :
         call.before[call.id][1][i][1] \notin Names =>
           ext[call.id][1][i] = call.before[call.id][1][i]
    /\ \A i \in (Len(call.before[call.id][1]) + 1)..Len(ext[call.id][1]) :
         ext[call.id][1][i][1] \in Names
    /\ outcome = "returned" =>
         \A i \in 1..Len(call.fields) :
           IsLast(i) =>
             /\ HasKey(ext[call.id][1], call.fields[i].name)
             /\ Get(ext[call.id][1], call.fields[i].name) = Doc(call.fields[i])

\* An on_record that changed the value of the user's key, added another
\* key after it and left target and name alone.
C8_Witness ==
  /\ Recorded
  /\ call.op = "on_record"
  /\ Len(call.before[call.id][1]) = 3
  /\ Len(ext[call.id][1]) = 4
  /\ ext[call.id][1][1] = call.before[call.id][1][1]
  /\ ext[call.id][1][2] = call.before[call.id][1][2]
  /\ ext[call.id][1][3][1] = call.before[call.id][1][3][1]
  /\ ext[call.id][1][3][2] # call.before[call.id][1][3][2]

\* C9: the record attached to a span has target as its first key and name
\* as its second, whatever was recorded on the span.
C9_TargetNameFirst ==
  \A id \in 1..Len(ext) :
    ext[id] # <<>> =>
      /\ Len(ext[id][1]) >= 2
      /\ ext[id][1][1][1] = K_target
      /\ ext[id][1][2][1] = K_name

\* A record on which the user recorded name and target too, and more.
C9_Witness ==
  /\ call.op = "on_record"
  /\ ext[1] # <<>>
  /\ Len(ext[1][1]) = 4
  /\ ext[1][1][1] = <<K_target, Bool(FALSE)>>
  /\ ext[1][1][2] = <<K_name, Str(Plain)>>

\* The serialization numbered i walked the chain: it found the scope in the
\* cell and its serialize_seq did not fail.
Walked(i) == results[i].cell # <<>> /\ results[i].failAt # 1

\* C10: of the serializations of one ScopeSerializer at most one walks the
\* chain; it yields, when the serializer does not fail, the records of the
\* chain, root first, which are not empty when a span of the chain has a
\* record; every later one yields an empty sequence, and no error unless
\* the serializer fails.
C10_WalksOnce ==
  \A i \in 1..Len(results) :
    /\ \A j \in 1..(i - 1) : ~(Walked(j) /\ Walked(i))
    /\ (\E j \in 1..(i - 1) : Walked(j)) =>
         /\ results[i].elems = <<>>
         /\ results[i].failAt = 0 => results[i].ok
    /\ (i = 1 /\ results[i].failAt = 0) =>
         /\ results[i].ok
         /\ \A ids \in Chains(results[i].cell[1]) :
              /\ results[i].elems = RecordsIn(results[i].seen, ids)
              /\ results[i].alone =>
                   results[i].elems = RecordsIn(results[i].before, ids)
              /\ (\E k \in 1..Len(ids) : ext[ids[k]] # <<>>)
                   => results[i].elems # <<>>

\* Two serializations of the serializer of a chain of two spans with
\* records: the first yields both records, the second none.
C10_Witness ==
  /\ Len(results) = 2
  /\ results[1].failAt = 0
  /\ Len(results[1].elems) = 2
  /\ results[2].failAt = 0
  /\ results[2].ok
  /\ results[2].elems = <<>>

\* Standard output has received what the on_event in flight, if there is
\* one, has written so far, and nothing else: nothing while it serializes,
\* its whole line by one write_all while it is about to flush.
OnlyTheEventInFlightWrote ==
  IF inflight = <<>> THEN written = <<>> /\ sinkLog = <<>>
  ELSE IF inflight[1].phase = "walk" THEN written = <<>> /\ sinkLog = <<>>
  ELSE /\ sinkLog = <<SinkCall("write_all", TRUE)>>
       /\ Len(written) = 1
       /\ written[1].closed
       /\ written[1].nl

\* C11: an on_event whose document serializes calls write_all once, with
\* the whole document and its newline, and when that write succeeds flush
\* once after it, all before it returns; nothing is written twice, and the
\* callbacks of spans write nothing, so no output waits for a later callback.
C11_OneWritePerEvent ==
  /\ (call.op # "on_event" \/ call.pending) => OnlyTheEventInFlightWrote
  /\ call.pending => inflight # <<>>
  /\ Len(written) <= 1
  /\ (call.op = "on_event" /\ ~call.pending /\ call.failAt = 0
        /\ outcome = "returned") =>
       /\ sinkLog # <<>>
       /\ sinkLog[1].op = "write_all"
       /\ sinkLog[1].ok =>
            /\ Len(sinkLog) = 2
            /\ sinkLog[2].op = "flush"
            /\ Len(written) = 1
            /\ written[1].closed
            /\ written[1].nl
       /\ ~sinkLog[1].ok => sinkLog = <<SinkCall("write_all", FALSE)>>

\* An event in a span, written whole and flushed.
C11_Witness ==
  /\ WroteLine
  /\ call.id # 0
  /\ sinkLog = <<SinkCall("write_all", TRUE), SinkCall("flush", TRUE)>>

\* C12: a whole line for an event outside every span has neither span nor
\* spans; one for an event in a span has spans, be it empty, and has span
\* exactly when the enclosing span has a record.
C12_SpanKeys ==
  WroteLine =>
    /\ call.id = 0 => Keys(written[1].entries) = BaseKeys
    /\ call.id # 0 =>
         /\ HasKey(written[1].entries, K_spans)
         /\ HasKey(written[1].entries, K_span) <=> ext[call.id] # <<>>

\* An event in a span without a record, child of a span without one: spans
\* is there and empty, span is not.
C12_Witness ==
  /\ WroteLine
  /\ call.id = 2
  /\ parent = <<0, 1>>
  /\ ext = << <<>>, <<>> >>
  /\ Keys(written[1].entries) = BaseKeys \o <<K_spans>>
  /\ written[1].entries[5][2] = Arr(<<>>)

\* The document the adapter was made over.
Wrapped == adapter.doc[1]

\* C13: a document wrapped in a SerdeJsonAdapter and recorded through
\* record_value is stored as a document equal to it, the order of an
\* object's keys and of an array's elements included.
C13_RoundTrip ==
  /\ ToValue(as_value(Wrapped)) = <<Wrapped>>
  /\ (call.op = "on_new_span" /\ call.found) =>
       /\ outcome = "returned"
       /\ ext[call.id] # <<>>
       /\ Get(ext[call.id][1], K_json) = Wrapped

\* A span has recorded an object holding an array and a float.
C13_Witness ==
  /\ call.op = "on_new_span" /\ call.found
  /\ Wrapped = Obj(<< <<A, Arr(<<Bool(TRUE), Str(A)>>)>>,
                      <<B, Float(15, 1)>> >>)
  /\ Get(ext[1][1], K_json) = Wrapped

\* C14: as_value gives unit for null, a bool for a boolean, a string for a
\* string, an unsigned integer for every integer from 0 up, a signed one
\* for every integer below 0 and a float for every other number; it never
\* fails.
C14_AsValue ==
  adapter.value # <<>> =>
    /\ Wrapped.t = "null" => adapter.value[1] = VUnit
    /\ Wrapped.t = "bool" => adapter.value[1] = VBool(Wrapped.v)
    /\ Wrapped.t = "str" => adapter.value[1] = VString(Wrapped.v)
    /\ (Wrapped.t = "num" /\ Wrapped.n = "float") =>
         adapter.value[1]
           = VF64(IF Wrapped.v[3] THEN NegZeroF64
                  ELSE Finite(Wrapped.v[1], Wrapped.v[2]))
    /\ (Wrapped.t = "num" /\ Wrapped.n # "float" /\ Wrapped.v >= 0) =>
         adapter.value[1] = VU64(Wrapped.v)
    /\ (Wrapped.t = "num" /\ Wrapped.n # "float" /\ Wrapped.v < 0) =>
         adapter.value[1] = VI64(Wrapped.v)
    /\ Wrapped.t = "arr" => adapter.value[1].t = "Listable"
    /\ Wrapped.t = "obj" => adapter.value[1].t = "Mappable"

\* as_value has answered for the integer 7.
C14_Witness ==
  /\ Wrapped.t = "num" /\ Wrapped.n = "pos" /\ Wrapped.v = 7
  /\ adapter.value = <<VU64(7)>>

\* C18: over an array of n elements the Listable size hint is (n, Some(n))
\* and visit makes n visit_value calls, one for each element in order with
\* the value of an adapter over it; over an object of n entries the Mappable
\* size hint is (n, Some(n)) and visit makes n visit_entry calls, one for
\* each entry in iteration order, the key as a string value.
C18_VisitAndHints ==
  /\ (Wrapped.t = "arr" /\ adapter.listHint # <<>>) =>
       adapter.listHint[1] = <<Len(Wrapped.v), <<Len(Wrapped.v)>> >>
  /\ (Wrapped.t = "obj" /\ adapter.mapHint # <<>>) =>
       adapter.mapHint[1] = <<Len(Wrapped.v), <<Len(Wrapped.v)>> >>
  /\ (Wrapped.t = "arr" /\ adapter.calls # <<>>) =>
       /\ Len(adapter.calls[1]) = Len(Wrapped.v)
       /\ \A i \in 1..Len(Wrapped.v) :
            adapter.calls[1][i] = VisitValue(as_value(Wrapped.v[i]))
  /\ (Wrapped.t = "obj" /\ adapter.calls # <<>>) =>
       /\ Len(adapter.calls[1]) = Len(Wrapped.v)
       /\ \A i \in 1..Len(Wrapped.v) :
            adapter.calls[1][i] =
              VisitEntry(<<VString(Wrapped.v[i][1]),
                           as_value(Wrapped.v[i][2])>>)

\* An array of two elements has been visited and asked for its size.
C18_Witness ==
  /\ Wrapped = Arr(<<Null, Str(B)>>)
  /\ adapter.listHint = << <<2, <<2>> >> >>
  /\ adapter.calls = << <<VisitValue(VUnit), VisitValue(VString(B))>> >>

\* The places of stream that hold a write of thread t, and its flush.
WritesOf(t) ==
  {i \in 1..Len(stream) : stream[i].thread = t /\ stream[i].op = "write"}

FlushesOf(t) ==
  {i \in 1..Len(stream) : stream[i].thread = t /\ stream[i].op = "flush"}

\* C17, as the code has it: the writes of an event's line reach standard
\* output in order with nothing of another thread among them, the one flush
\* of an event comes after its whole line, and an event that returned
\* without a failed write has written its whole line and flushed.
C17_LinesNotInterleaved ==
  \A t \in DOMAIN pc :
    /\ \A i \in WritesOf(t), j \in WritesOf(t) :
         i < j =>
           /\ stream[i].n < stream[j].n
           /\ \A k \in i..j : stream[k].thread = t /\ stream[k].op = "write"
    /\ Cardinality(FlushesOf(t)) <= 1
    /\ \A j \in FlushesOf(t) :
         /\ Cardinality(WritesOf(t)) = MaxWrites
         /\ \A i \in WritesOf(t) : i < j
    /\ (pc[t].at = "returned" /\ pc[t].done = MaxWrites) =>
         FlushesOf(t) # {}

\* C17, as stated: between the last write of an event and its flush
\* standard output receives nothing of another event.
C17_OneAcquisition ==
  \A t \in DOMAIN pc :
    \A i \in WritesOf(t), j \in FlushesOf(t) :
      \A k \in i..j : stream[k].thread = t

\* Two events returned; the whole line of the second was written between
\* the line of the first and the flush of the first.
C17_Witness ==
  /\ pc[1].at = "returned"
  /\ pc[2].at = "returned"
  /\ Len(stream) = 2 * MaxWrites + 2
  /\ \A i \in 1..MaxWrites :
       /\ stream[i] = [thread |-> 1, op |-> "write", n |-> i]
       /\ stream[MaxWrites + i] = [thread |-> 2, op |-> "write", n |-> i]
  /\ stream[2 * MaxWrites + 1] = [thread |-> 1, op |-> "flush", n |-> 0]

\* The value of spans in the line written.
SpansWritten == Get(written[1].entries, K_spans)

\* C15: spans, in a whole line for an event in a span, is the records of
\* the chain from the root to the event's span, in that order, of the spans
\* that have one; a span without a record adds nothing and the spans after
\* it are still there.
C15_SpansSkipsMissing ==
  (WroteLine /\ call.id # 0) =>
    /\ HasKey(written[1].entries, K_spans)
    /\ \A ids \in Chains(call.id) :
         /\ Len(SpansWritten.v) = Len(RecordsOf(ids))
         /\ \A k \in 1..Len(SpansWritten.v) :
              SpansWritten.v[k] = Obj(RecordsIn(call.seen, ids)[k])
         /\ call.alone =>
              \A k \in 1..Len(SpansWritten.v) :
                SpansWritten.v[k] = Obj(RecordsOf(ids)[k])

\* An event in span 2, which has a record, under span 1, which has none:
\* spans holds the record of span 2 alone.
C15_Witness ==
  /\ WroteLine
  /\ call.id = 2
  /\ parent = <<0, 1>>
  /\ ext[1] = <<>>
  /\ ext[2] # <<>>
  /\ SpansWritten = Arr(<<Obj(ext[2][1])>>)

\* The latest callback was an on_new_span or on_record whose lookup found
\* no span, or an on_record on a span without a record.
Missed ==
  /\ call.op \in {"on_new_span", "on_record"}
  /\ \/ ~call.found
     \/ call.op = "on_record" /\ call.before[call.id] = <<>>

\* C16: an on_new_span whose lookup misses, and an on_record whose lookup
\* misses or finds a span without a record, returns having attached no
\* record, changed no record and written nothing: standard output holds
\* what an on_event running on another thread wrote, if anything.
C16_MissIsNoOp ==
  Missed =>
    /\ outcome = "returned"
    /\ call.op = "on_new_span" => ext[call.id] = <<>>
    /\ (call.op = "on_record" /\ call.before[call.id] = <<>>)
         => ext[call.id] = <<>>
    /\ \A j \in 1..Len(call.before) : ext[j] = call.before[j]
    /\ OnlyTheEventInFlightWrote

\* The lookup of on_new_span missed for span 2 while span 1 has a record.
C16_Witness ==
  /\ Missed
  /\ call.op = "on_new_span"
  /\ call.id = 2
  /\ call.fields # <<>>
  /\ ext[1] # <<>>

\* C19: on_event leaves every record as it was, so the record of the
\* event's fields is attached to no span; on_new_span and on_record leave
\* the records of all other spans as they were, and the record of their own
\* span is what its earlier record and the call's fields give.
C19_Frame ==
  /\ (call.op = "on_event" /\ call.alone) => ext = call.before
  /\ call.op = "on_new_span" =>
       /\ Len(ext) = Len(call.before) + 1
       /\ \A j \in 1..Len(call.before) : ext[j] = call.before[j]
  /\ call.op = "on_record" =>
       /\ Len(ext) = Len(call.before)
       /\ \A j \in 1..Len(ext) : j # call.id => ext[j] = call.before[j]
  /\ Recorded =>
       /\ Keys(ext[call.id][1]) = Distinct(Keys(Insertions))
       /\ \A k \in 1..Len(ext[call.id][1]) :
            ext[call.id][1][k][2]
              = LastValue(Insertions, ext[call.id][1][k][1])

\* An on_record changed the record of span 2 and left that of span 1.
C19_Witness ==
  /\ Recorded
  /\ call.op = "on_record"
  /\ call.id = 2
  /\ ext[2] # call.before[2]
  /\ ext[1] # <<>>
  /\ ext[1] = call.before[1]

\* C20: a whole line that has span has spans, not empty, whose last
\* element is equal to span.
C20_SpanIsLastOfSpans ==
  (WroteLine /\ HasKey(written[1].entries, K_span)) =>
    /\ HasKey(written[1].entries, K_spans)
    /\ SpansWritten.t = "arr"
    /\ Len(SpansWritten.v) > 0
    /\ SpansWritten.v[Len(SpansWritten.v)] = Get(written[1].entries, K_span)

\* C21: the record of every span holds, under target and name, the target
\* and the name of the span's metadata, whatever attributes the span was
\* given at creation or through on_record.
C21_MetadataKept ==
  \A id \in 1..Len(ext) :
    ext[id] # <<>> =>
      /\ Get(ext[id][1], K_target) = Str(SpanMeta(id).target)
      /\ Get(ext[id][1], K_name) = Str(SpanMeta(id).name)

====
